---- MODULE Spec2Model ----
(***************************************************************************)
(* Backlog Domain Service of atlas-ubmm: the BacklogService handlers over  *)
(* the PostgreSQL adapter (items and events tables with their constraints  *)
(* and triggers), the Redis cache adapter, the Kafka publisher and the     *)
(* Kafka consumer loop.                                                    *)
(*                                                                         *)
(* UUIDs are modelled as naturals: uuid.Nil is 0, uuid.New() yields the    *)
(* next unused positive number.  A nil pointer / SQL NULL is Nil.          *)
(* Timestamps (createdAt, updatedAt, event timestamps) are not modelled.   *)
(***************************************************************************)
EXTENDS Integers, Sequences, FiniteSets, TLC

VARIABLES
    store,     \* backlog_items table: id -> row
    events,    \* events table, in insertion order
    bus,       \* messages handed to the Kafka producer, in order
    cache,     \* Redis: key -> stored JSON value
    nextId,    \* number of item UUIDs persisted so far
    inflight,  \* handlers that have started and not yet returned
    last,      \* the call that returned last
    calls,     \* number of mutating calls made so far
    consumer   \* the KafkaConsumer.ConsumeMessages loop

vars == <<store, events, bus, cache, nextId, inflight, last, calls, consumer>>

-----------------------------------------------------------------------------
(* Bounds of the model *)

MaxItems == 2
MaxCalls == 3
MaxPriority == 2

-----------------------------------------------------------------------------
(* Values *)

Nil == -1
UuidNil == 0

ItemTypeEpic == "EPIC"
ItemTypeFeature == "FEATURE"
ItemTypeStory == "STORY"
ItemStatusNew == "NEW"
ItemStatusReady == "READY"
ItemStatusInProgress == "IN_PROGRESS"
ItemStatusDone == "DONE"
ItemStatusBlocked == "BLOCKED"

Ids == 1..MaxItems

EmptyMap == [s \in {} |-> ""]

isValidItemType(itemType) ==
    itemType = ItemTypeEpic \/ itemType = ItemTypeFeature \/ itemType = ItemTypeStory

isValidItemStatus(status) ==
    \/ status = ItemStatusNew
    \/ status = ItemStatusReady
    \/ status = ItemStatusInProgress
    \/ status = ItemStatusDone
    \/ status = ItemStatusBlocked

\* length(trim(title)) of the titles used in the model
TrimLength(title) ==
    CASE title = ""   -> 0
      [] title = " "  -> 0
      [] OTHER        -> 1

\* BacklogItem.AddTag: append unless already present
AddTag(tags, tag) ==
    IF \E i \in 1..Len(tags) : tags[i] = tag THEN tags ELSE Append(tags, tag)

RECURSIVE AddTags(_, _)
AddTags(tags, new) ==
    IF new = <<>> THEN tags ELSE AddTags(AddTag(tags, Head(new)), Tail(new))

\* a map that keeps the first value given for a key
MapPutFirst(m, k, v) ==
    [s \in (DOMAIN m) \cup {k} |-> IF s \in DOMAIN m THEN m[s] ELSE v]

\* BacklogItem.SetExternalID: i.ExternalIDs[system] = externalID
MapPut(m, k, v) ==
    [s \in (DOMAIN m) \cup {k} |-> IF s = k THEN v ELSE m[s]]

NewBacklogItem(id, itemType, title, description) ==
    [id |-> id, type |-> itemType, parentId |-> Nil, title |-> title,
     description |-> description, storyPoints |-> 0, status |-> ItemStatusNew,
     priority |-> 0, assignee |-> "", tags |-> <<>>, externalIds |-> EmptyMap]

\* every pairing accepted
isValidParentChildAny(parentType, childType) == TRUE

isValidParentChild(parentType, childType) ==
    \/ parentType = ItemTypeEpic /\ childType = ItemTypeFeature
    \/ parentType = ItemTypeFeature /\ childType = ItemTypeStory

-----------------------------------------------------------------------------
(* PostgreSQL: schema constraints and the adapter's statements *)

\* a table without its CHECK constraints
CheckConstraintsNone(row) == TRUE

\* CONSTRAINT backlog_items_title_not_empty, backlog_items_story_points_not_negative
CheckConstraints(row) ==
    TrimLength(row.title) > 0 /\ row.storyPoints >= 0

\* parent_id UUID REFERENCES backlog_items(id)
ForeignKeyParent(s, row) ==
    row.parentId = Nil \/ row.parentId \in DOMAIN s

\* trigger validate_backlog_item_parent_child (fires WHEN NEW.parent_id IS NOT NULL);
\* a missing parent gives parent_type NULL, which takes the ELSE branch
validate_parent_child_relationship(s, row) ==
    \/ row.parentId = Nil
    \/ /\ row.parentId \in DOMAIN s
       /\ \/ s[row.parentId].type = ItemTypeEpic /\ row.type = ItemTypeFeature
          \/ s[row.parentId].type = ItemTypeFeature /\ row.type = ItemTypeStory

\* the enum columns type item_type, status item_status
EnumColumns(row) ==
    isValidItemType(row.type) /\ isValidItemStatus(row.status)

RowAcceptedNoParentRules(s, row) ==
    CheckConstraints(row) /\ EnumColumns(row)

\* whether INSERT / UPDATE of this row passes the table's constraints
RowAccepted(s, row) ==
    /\ CheckConstraints(row)
    /\ EnumColumns(row)
    /\ ForeignKeyParent(s, row)
    /\ validate_parent_child_relationship(s, row)

\* PostgresAdapter.Create: INSERT INTO backlog_items
DbCreate(s, row) ==
    [i \in (DOMAIN s) \cup {row.id} |-> IF i = row.id THEN row ELSE s[i]]

\* an UPDATE of the title column alone
DbUpdateTitleOnly(s, row) ==
    [s EXCEPT ![row.id].title = row.title]

\* PostgresAdapter.Update: UPDATE backlog_items SET ... WHERE id = $12
DbUpdate(s, row) ==
    [s EXCEPT ![row.id] = row]

\* PostgresAdapter.Delete: DELETE FROM backlog_items WHERE id = $1,
\* with parent_id ... ON DELETE SET NULL on the remaining rows
DbDelete(s, id) ==
    [i \in (DOMAIN s) \ {id} |->
        IF s[i].parentId = id THEN [s[i] EXCEPT !.parentId = Nil] ELSE s[i]]

\* events.item_id ... ON DELETE CASCADE
DbCascadeEvents(ev, id) ==
    SelectSeq(ev, LAMBDA e : e.item_id # id)

\* rows WHERE parent_id = $1
ChildIds(s, parentId) ==
    {i \in DOMAIN s : s[i].parentId = parentId}

\* the orderings ORDER BY priority ASC / DESC may return for a set of rows
\* (rows of equal priority come in any order)
OrderedByPriority(s, ids, desc) ==
    {q \in [1..Cardinality(ids) -> ids] :
        /\ \A i, j \in 1..Cardinality(ids) : i # j => q[i] # q[j]
        /\ \A i, j \in 1..Cardinality(ids) :
              i < j => IF desc THEN s[q[i]].priority >= s[q[j]].priority
                               ELSE s[q[i]].priority <= s[q[j]].priority}

RowsOf(s, q) == [i \in 1..Len(q) |-> s[q[i]]]

-----------------------------------------------------------------------------
(* Redis adapter.  A set f names the infrastructure steps that fail during  *)
(* one call: "db", "event", "publish", "get", "set", "del_item",            *)
(* "del_list", "del_metrics".                                                *)

ItemKey(id) == <<"item", id>>
ChildrenKey(id) == <<"children", id>>
ListKey == <<"list:all", 0>>
MetricsKey == <<"metrics", 0>>

\* buildListCacheKey: the same key for every filter
buildListCacheKey(filter) == ListKey

\* json.Marshal in RedisAdapter.Set: a struct becomes an object, a slice an
\* array, a nil slice null
JsonMarshal(shape, v) == [json |-> shape, val |-> v]

\* json.Unmarshal into interface{} in RedisAdapter.Get: the Go type of the
\* decoded value depends on the JSON shape only
JsonUnmarshalAny(j) ==
    [gotype |-> CASE j.json = "object" -> "map[string]interface {}"
                  [] j.json = "array"  -> "[]interface {}"
                  [] OTHER             -> "nil",
     val |-> j.val]

\* a cache that hands back the value with the type it was stored with
RedisGetAsStored(c, key, wantType, f) ==
    "get" \notin f /\ key \in DOMAIN c

\* RedisAdapter.Get followed by the handler's test
\* err == nil && cached != nil && cached.(wantType) succeeds
RedisGetAs(c, key, wantType, f) ==
    /\ "get" \notin f
    /\ key \in DOMAIN c
    /\ JsonUnmarshalAny(c[key]).gotype = wantType

\* RedisAdapter.Set
RedisSet(c, key, j, f) ==
    IF "set" \in f THEN c
    ELSE [k \in (DOMAIN c) \cup {key} |-> IF k = key THEN j ELSE c[k]]

\* RedisAdapter.Delete of the keys whose DEL does not fail
RedisDelete(c, keys) ==
    [k \in (DOMAIN c) \ keys |-> c[k]]

\* BacklogService.invalidateListCache
invalidateListCache(c, f) ==
    RedisDelete(c, (IF "del_list" \in f THEN {} ELSE {ListKey})
                   \cup (IF "del_metrics" \in f THEN {} ELSE {MetricsKey}))

\* s.cache.Delete(ctx, "item:"+id)
DeleteItemKey(c, id, f) ==
    RedisDelete(c, IF "del_item" \in f THEN {} ELSE {ItemKey(id)})

-----------------------------------------------------------------------------
(* Event log and publisher *)

EventTypeItemCreated == "ITEM_CREATED"
EventTypeItemUpdated == "ITEM_UPDATED"
EventTypeItemDeleted == "ITEM_DELETED"
EventTypeItemsReordered == "ITEMS_REORDERED"
EventTypeExternalIDSet == "EXTERNAL_ID_SET"

NewItemCreatedEvent(itemId, item) ==
    [type |-> EventTypeItemCreated, itemId |-> itemId, item |-> item]
NewItemUpdatedEvent(itemId, item) ==
    [type |-> EventTypeItemUpdated, itemId |-> itemId, item |-> item]
NewItemDeletedEvent(itemId, item) ==
    [type |-> EventTypeItemDeleted, itemId |-> itemId, item |-> item]
\* the payload cut down to one entry of the map
NewItemsReorderedEventOneEntry(itemPriorities) ==
    [type |-> EventTypeItemsReordered,
     itemPriorities |-> [id \in {CHOOSE id \in DOMAIN itemPriorities : TRUE} |->
                            itemPriorities[id]]]
NewItemsReorderedEvent(itemPriorities) ==
    [type |-> EventTypeItemsReordered, itemPriorities |-> itemPriorities]
NewExternalIDSetEvent(itemId, system, externalId) ==
    [type |-> EventTypeExternalIDSet, itemId |-> itemId,
     system |-> system, externalId |-> externalId]

\* the getters StoreEvent looks for, as if the event types declared them
EventMethodsDeclared == {"GetID", "GetType", "GetTimestamp", "GetItemID"}

\* the methods declared on the event types of events.go: none (Event and
\* the five event structs have fields only)
EventMethods == {}

\* fmt.Sprintf("%T", event)
GoTypeName(event) ==
    CASE event.type = EventTypeItemCreated    -> "*event.ItemCreatedEvent"
      [] event.type = EventTypeItemUpdated    -> "*event.ItemUpdatedEvent"
      [] event.type = EventTypeItemDeleted    -> "*event.ItemDeletedEvent"
      [] event.type = EventTypeItemsReordered -> "*event.ItemsReorderedEvent"
      [] OTHER                                -> "*event.ExternalIDSetEvent"

\* the row PostgresAdapter.StoreEvent inserts: the metadata comes from the
\* event's getter methods when it has them, else from the fallbacks
EventRow(event) ==
    [event_type |-> IF "GetType" \in EventMethods THEN event.type
                    ELSE GoTypeName(event),
     item_id |-> IF "GetItemID" \in EventMethods /\ "itemId" \in DOMAIN event
                 THEN event.itemId ELSE Nil,
     payload |-> event]

\* the new row written over the log
StoreEventOverwrite(ev, s, event, f) ==
    IF "event" \in f THEN ev ELSE <<EventRow(event)>>

\* PostgresAdapter.StoreEvent: INSERT INTO events, subject to
\* item_id UUID REFERENCES backlog_items(id)
StoreEvent(ev, s, event, f) ==
    IF "event" \in f THEN ev
    ELSE IF EventRow(event).item_id # Nil /\ EventRow(event).item_id \notin DOMAIN s
         THEN ev
         ELSE Append(ev, EventRow(event))

\* every message sent to one topic
PublishOneTopic(b, topic, event, f) ==
    IF "publish" \in f THEN b
    ELSE Append(b, [topic |-> "backlog.events", key |-> "generated", value |-> event])

\* KafkaAdapter.Publish: the event types have no GetID() string, so the key
\* is generated
Publish(b, topic, event, f) ==
    IF "publish" \in f THEN b
    ELSE Append(b, [topic |-> topic, key |-> "generated", value |-> event])

\* the StoreEvent or Publish error handed back to the caller
ErrorAfterWriteReturned(f) ==
    IF "event" \in f THEN "failed to store event"
    ELSE IF "publish" \in f THEN "failed to produce message"
    ELSE ""

\* what a handler returns once its persistence write has succeeded: the
\* errors of StoreEvent and Publish are logged, those of cache.Delete are
\* dropped, and the handler returns nil
ErrorAfterWrite(f) == ""

\* a handler returns: the record of the call (the consumer loop runs in its
\* own goroutine and is where it was)
Return(op, args, ok, err, res, f, wrote) ==
    /\ last' = [op |-> op, args |-> args, ok |-> ok, err |-> err, res |-> res,
                fails |-> f, wrote |-> wrote]
    /\ UNCHANGED consumer

\* the early return also drops every cache entry
AbortCacheDropped(op, args, err, f) ==
    /\ Return(op, args, FALSE, err, Nil, f, FALSE)
    /\ cache' = EmptyMap
    /\ UNCHANGED <<store, events, bus, nextId>>

\* a mutating handler returns an error before or at its persistence write
Abort(op, args, err, f) ==
    /\ Return(op, args, FALSE, err, Nil, f, FALSE)
    /\ UNCHANGED <<store, events, bus, cache, nextId>>

-----------------------------------------------------------------------------
(* BacklogService handlers.  The handlers below run from call to return in  *)
(* one step; DeleteItem is also given in two steps (DeleteItemCheck,         *)
(* DeleteItemFinish) for the interleavings of concurrent requests.           *)

Field(req, name, dflt) == IF name \in DOMAIN req THEN req[name] ELSE dflt

\* CreateItem, lines 57-81: the error returned before the item is persisted
CreateItemError(req) ==
    IF req.title = "" THEN "title cannot be empty"
    ELSE IF ~isValidItemType(req.type) THEN "invalid item type"
    ELSE IF req.parentId = Nil THEN ""
    ELSE IF req.type = ItemTypeEpic THEN "epic cannot have a parent"
    ELSE IF req.parentId \notin DOMAIN store THEN "backlog item not found"
    ELSE IF ~isValidParentChild(store[req.parentId].type, req.type)
         THEN "invalid parent-child relationship"
    ELSE ""

\* the request's tags copied without AddTag
CreateItemBuildRawTags(id, req) ==
    [NewBacklogItem(id, req.type, req.title, req.description) EXCEPT
        !.parentId = req.parentId,
        !.storyPoints = IF req.storyPoints > 0 THEN req.storyPoints ELSE 0,
        !.tags = req.tags]

\* CreateItem, lines 57-93: the item as it is handed to repo.Create
CreateItemBuild(id, req) ==
    [NewBacklogItem(id, req.type, req.title, req.description) EXCEPT
        !.parentId = req.parentId,
        !.storyPoints = IF req.storyPoints > 0 THEN req.storyPoints ELSE 0,
        !.tags = AddTags(<<>>, req.tags)]

CreateItem(req, f) ==
    /\ calls < MaxCalls
    /\ nextId < MaxItems
    /\ calls' = calls + 1
    /\ UNCHANGED inflight
    /\ LET id == nextId + 1
           err == CreateItemError(req)
           item == CreateItemBuild(id, req)
           createEvent == NewItemCreatedEvent(id, item)
       IN  IF err # "" THEN Abort("CreateItem", req, err, f)
           ELSE IF "db" \in f \/ ~RowAccepted(store, item)
           THEN Abort("CreateItem", req, "failed to create backlog item", f)
           ELSE /\ store' = DbCreate(store, item)
                /\ nextId' = id
                /\ events' = StoreEvent(events, store', createEvent, f)
                /\ bus' = Publish(bus, "backlog.item.created", createEvent, f)
                /\ cache' = invalidateListCache(cache, f)
                /\ Return("CreateItem", req, ErrorAfterWrite(f) = "", ErrorAfterWrite(f),
                            item, f, TRUE)

\* the decoded value is taken whatever its Go type
CachedItemUsableAnyType(c, id, f) ==
    "get" \notin f /\ ItemKey(id) \in DOMAIN c

\* GetItem, lines 123-129: the cached value is used
CachedItemUsable(c, id, f) ==
    RedisGetAs(c, ItemKey(id), "*model.BacklogItem", f)

GetItem(id, f) ==
    /\ UNCHANGED <<store, events, bus, nextId, inflight, calls>>
    /\ IF CachedItemUsable(cache, id, f)
       THEN /\ cache' = cache
            /\ Return("GetItem", id, TRUE, "", JsonUnmarshalAny(cache[ItemKey(id)]).val, f, FALSE)
       ELSE IF id \notin DOMAIN store
       THEN /\ cache' = cache
            /\ Return("GetItem", id, FALSE, "backlog item not found", Nil, f, FALSE)
       ELSE /\ cache' = RedisSet(cache, ItemKey(id), JsonMarshal("object", store[id]), f)
            /\ Return("GetItem", id, TRUE, "", store[id], f, FALSE)

\* UpdateItem, lines 154-202: the first error of the field updates
UpdateItemError(item, req) ==
    IF "title" \in DOMAIN req /\ req.title = "" THEN "title cannot be empty"
    ELSE IF "status" \in DOMAIN req /\ ~isValidItemStatus(req.status)
         THEN "invalid item status"
    ELSE IF "storyPoints" \in DOMAIN req /\ req.storyPoints < 0
         THEN "story points cannot be negative"
    ELSE IF "parentId" \notin DOMAIN req THEN ""
    ELSE IF req.parentId # UuidNil /\ req.parentId \notin DOMAIN store
         THEN "backlog item not found"
    ELSE IF req.parentId # UuidNil
            /\ ~isValidParentChild(store[req.parentId].type, item.type)
         THEN "invalid parent-child relationship"
    ELSE IF item.type = ItemTypeEpic THEN "epic cannot have a parent"
    ELSE ""

\* the request taken as the whole new item: absent fields get zero values
UpdateItemApplyReplace(item, req) ==
    [item EXCEPT
        !.title = Field(req, "title", @),
        !.description = Field(req, "description", ""),
        !.status = Field(req, "status", @),
        !.storyPoints = Field(req, "storyPoints", 0),
        !.priority = Field(req, "priority", 0),
        !.parentId = Field(req, "parentId", @),
        !.assignee = Field(req, "assignee", ""),
        !.tags = IF "tags" \in DOMAIN req THEN AddTags(<<>>, req.tags) ELSE <<>>]

\* the update also moves the item to another type
UpdateItemApplyRetype(item, req) ==
    [item EXCEPT
        !.title = Field(req, "title", @),
        !.type = IF @ = ItemTypeStory THEN ItemTypeFeature ELSE ItemTypeStory]

\* UpdateItem, lines 154-215: the fields present in the request applied
UpdateItemApply(item, req) ==
    [item EXCEPT
        !.title = Field(req, "title", @),
        !.description = Field(req, "description", @),
        !.status = Field(req, "status", @),
        !.storyPoints = Field(req, "storyPoints", @),
        !.priority = Field(req, "priority", @),
        !.parentId = Field(req, "parentId", @),
        !.assignee = Field(req, "assignee", @),
        !.tags = IF "tags" \in DOMAIN req THEN AddTags(<<>>, req.tags) ELSE @]

\* the item to update taken from the cache when it has a copy
UpdateItemFromCache(id, req, f) ==
    /\ calls < MaxCalls
    /\ calls' = calls + 1
    /\ UNCHANGED inflight
    /\ LET args == [id |-> id, req |-> req] IN
       IF id \notin DOMAIN store
       THEN Abort("UpdateItem", args, "backlog item not found", f)
       ELSE LET loaded == IF ItemKey(id) \in DOMAIN cache
                           THEN cache[ItemKey(id)].val ELSE store[id]
                err == UpdateItemError(loaded, req)
                item == UpdateItemApply(loaded, req)
                updateEvent == NewItemUpdatedEvent(id, item)
            IN  IF err # "" THEN Abort("UpdateItem", args, err, f)
                ELSE IF "db" \in f \/ ~RowAccepted(store, item)
                THEN Abort("UpdateItem", args, "failed to update backlog item", f)
                ELSE /\ store' = DbUpdate(store, item)
                     /\ nextId' = nextId
                     /\ events' = StoreEvent(events, store', updateEvent, f)
                     /\ bus' = Publish(bus, "backlog.item.updated", updateEvent, f)
                     /\ cache' = invalidateListCache(DeleteItemKey(cache, id, f), f)
                     /\ Return("UpdateItem", args, TRUE, "", item, f, TRUE)

UpdateItem(id, req, f) ==
    /\ calls < MaxCalls
    /\ calls' = calls + 1
    /\ UNCHANGED inflight
    /\ LET args == [id |-> id, req |-> req] IN
       IF id \notin DOMAIN store
       THEN Abort("UpdateItem", args, "backlog item not found", f)
       ELSE LET err == UpdateItemError(store[id], req)
                item == UpdateItemApply(store[id], req)
                updateEvent == NewItemUpdatedEvent(id, item)
            IN  IF err # "" THEN Abort("UpdateItem", args, err, f)
                ELSE IF "db" \in f \/ ~RowAccepted(store, item)
                THEN Abort("UpdateItem", args, "failed to update backlog item", f)
                ELSE /\ store' = DbUpdate(store, item)
                     /\ nextId' = nextId
                     /\ events' = StoreEvent(events, store', updateEvent, f)
                     /\ bus' = Publish(bus, "backlog.item.updated", updateEvent, f)
                     /\ cache' = invalidateListCache(DeleteItemKey(cache, id, f), f)
                     /\ Return("UpdateItem", args, ErrorAfterWrite(f) = "", ErrorAfterWrite(f),
                            item, f, TRUE)

\* UpdateItem up to the call of repo.Update, when the checks pass: the item
\* is loaded and the request applied to the loaded copy
UpdateItemLoad(id, req) ==
    /\ calls < MaxCalls
    /\ calls' = calls + 1
    /\ id \in DOMAIN store
    /\ UpdateItemError(store[id], req) = ""
    /\ inflight' = inflight \cup {[op |-> "UpdateItem", id |-> id, req |-> req,
                                     item |-> UpdateItemApply(store[id], req)]}
    /\ UNCHANGED <<store, events, bus, cache, nextId, last, consumer>>

\* the rest of that UpdateItem: repo.Update of the copy and what follows it
UpdateItemFinish(r, f) ==
    /\ r \in inflight
    /\ r.op = "UpdateItem"
    /\ inflight' = inflight \ {r}
    /\ UNCHANGED calls
    /\ LET args == [id |-> r.id, req |-> r.req]
           updateEvent == NewItemUpdatedEvent(r.id, r.item)
       IN  IF r.id \notin DOMAIN store
           THEN Abort("UpdateItem", args, "backlog item not found", f)
           ELSE IF "db" \in f \/ ~RowAccepted(store, r.item)
           THEN Abort("UpdateItem", args, "failed to update backlog item", f)
           ELSE /\ store' = DbUpdate(store, r.item)
                /\ nextId' = nextId
                /\ events' = StoreEvent(events, store', updateEvent, f)
                /\ bus' = Publish(bus, "backlog.item.updated", updateEvent, f)
                /\ cache' = invalidateListCache(DeleteItemKey(cache, r.id, f), f)
                /\ Return("UpdateItem", args, ErrorAfterWrite(f) = "", ErrorAfterWrite(f),
                          r.item, f, TRUE)

\* GetItem up to the return of repo.GetByID, when the cached value is not
\* usable and the item exists
GetItemLoad(id, f) ==
    /\ ~CachedItemUsable(cache, id, f)
    /\ id \in DOMAIN store
    /\ \A r \in inflight : r.op # "GetItem"
    /\ inflight' = inflight \cup {[op |-> "GetItem", id |-> id, req |-> Nil,
                                     item |-> store[id]]}
    /\ UNCHANGED <<store, events, bus, cache, nextId, last, calls, consumer>>

\* the rest of that GetItem: cache.Set of the item it loaded
GetItemFinish(r, f) ==
    /\ r \in inflight
    /\ r.op = "GetItem"
    /\ inflight' = inflight \ {r}
    /\ cache' = RedisSet(cache, ItemKey(r.id), JsonMarshal("object", r.item), f)
    /\ Return("GetItem", r.id, TRUE, "", r.item, f, FALSE)
    /\ UNCHANGED <<store, events, bus, nextId, calls>>

\* SetExternalID up to the call of repo.Update: the item is loaded and the
\* external id set on the loaded copy
SetExternalIDLoad(id, system, externalID) ==
    /\ calls < MaxCalls
    /\ calls' = calls + 1
    /\ id \in DOMAIN store
    /\ inflight' = inflight \cup
          {[op |-> "SetExternalID", id |-> id,
            req |-> [id |-> id, system |-> system, externalID |-> externalID],
            item |-> [store[id] EXCEPT !.externalIds = MapPut(@, system, externalID)]]}
    /\ UNCHANGED <<store, events, bus, cache, nextId, last, consumer>>

\* the rest of that SetExternalID: repo.Update of the copy and what follows
SetExternalIDFinish(r, f) ==
    /\ r \in inflight
    /\ r.op = "SetExternalID"
    /\ inflight' = inflight \ {r}
    /\ UNCHANGED calls
    /\ LET externalIDEvent == NewExternalIDSetEvent(r.id, r.req.system, r.req.externalID) IN
       IF "db" \in f \/ r.id \notin DOMAIN store \/ ~RowAccepted(store, r.item)
       THEN Abort("SetExternalID", r.req, "failed to update backlog item", f)
       ELSE /\ store' = DbUpdate(store, r.item)
            /\ nextId' = nextId
            /\ events' = StoreEvent(events, store', externalIDEvent, f)
            /\ bus' = Publish(bus, "backlog.item.external_id.set", externalIDEvent, f)
            /\ cache' = DeleteItemKey(cache, r.id, f)
            /\ Return("SetExternalID", r.req, ErrorAfterWrite(f) = "", ErrorAfterWrite(f),
                      Nil, f, TRUE)

\* the children check left out
DeleteItemErrorNoChildrenCheck(s, id) ==
    IF id \notin DOMAIN s THEN "backlog item not found" ELSE ""

\* DeleteItem, lines 245-259: the existence and children checks
DeleteItemError(s, id) ==
    IF id \notin DOMAIN s THEN "backlog item not found"
    ELSE IF ChildIds(s, id) # {} THEN "cannot delete item with children"
    ELSE ""

\* the event appended and published ahead of the delete
DeleteItemWriteEventFirst(id, item, f) ==
    LET deleteEvent == NewItemDeletedEvent(id, item) IN
    IF "db" \in f \/ id \notin DOMAIN store
    THEN /\ events' = StoreEvent(events, store, deleteEvent, f)
         /\ bus' = Publish(bus, "backlog.item.deleted", deleteEvent, f)
         /\ UNCHANGED <<store, cache, nextId>>
         /\ Return("DeleteItem", id, FALSE, "failed to delete backlog item", Nil, f, FALSE)
    ELSE /\ store' = DbDelete(store, id)
         /\ nextId' = nextId
         /\ events' = StoreEvent(DbCascadeEvents(events, id), store', deleteEvent, f)
         /\ bus' = Publish(bus, "backlog.item.deleted", deleteEvent, f)
         /\ cache' = invalidateListCache(DeleteItemKey(cache, id, f), f)
         /\ Return("DeleteItem", id, TRUE, "", Nil, f, TRUE)

\* DeleteItem, lines 261-284: the delete and what follows it, for the item
\* loaded by the checks
DeleteItemWrite(id, item, f) ==
    IF "db" \in f \/ id \notin DOMAIN store
    THEN Abort("DeleteItem", id, "failed to delete backlog item", f)
    ELSE LET deleteEvent == NewItemDeletedEvent(id, item) IN
         /\ store' = DbDelete(store, id)
         /\ nextId' = nextId
         /\ events' = StoreEvent(DbCascadeEvents(events, id), store', deleteEvent, f)
         /\ bus' = Publish(bus, "backlog.item.deleted", deleteEvent, f)
         /\ cache' = invalidateListCache(DeleteItemKey(cache, id, f), f)
         /\ Return("DeleteItem", id, ErrorAfterWrite(f) = "", ErrorAfterWrite(f),
                            Nil, f, TRUE)

DeleteItem(id, f) ==
    /\ calls < MaxCalls
    /\ calls' = calls + 1
    /\ UNCHANGED inflight
    /\ IF DeleteItemError(store, id) # ""
       THEN Abort("DeleteItem", id, DeleteItemError(store, id), f)
       ELSE DeleteItemWrite(id, store[id], f)

\* DeleteItem up to and including the children check, when it passes
DeleteItemCheck(id) ==
    /\ calls < MaxCalls
    /\ calls' = calls + 1
    /\ DeleteItemError(store, id) = ""
    /\ \A r \in inflight : r.id # id
    /\ inflight' = inflight \cup {[op |-> "DeleteItem", id |-> id, item |-> store[id]]}
    /\ UNCHANGED <<store, events, bus, cache, nextId, last, consumer>>

\* the rest of that DeleteItem
DeleteItemFinish(r, f) ==
    /\ r \in inflight
    /\ r.op = "DeleteItem"
    /\ inflight' = inflight \ {r}
    /\ UNCHANGED calls
    /\ DeleteItemWrite(r.id, r.item, f)

\* case-insensitive substring test of ILIKE '%q%' for the texts of the model
\* (texts and queries of at most one letter)
Lower(t) == CASE t = "A" -> "a" [] t = "B" -> "b" [] OTHER -> t
ILikeContains(text, q) == q = "" \/ Lower(text) = Lower(q)

\* PostgresAdapter.buildFilterWhereClause
FilterMatches(row, filter) ==
    /\ filter.types = {} \/ row.type \in filter.types
    /\ filter.statuses = {} \/ row.status \in filter.statuses
    /\ filter.parentId = Nil \/ row.parentId = filter.parentId
    /\ filter.assignee = "" \/ row.assignee = filter.assignee
    /\ \A i \in 1..Len(filter.tags) :
          \E j \in 1..Len(row.tags) : row.tags[j] = filter.tags[i]
    /\ \/ filter.search = ""
       \/ ILikeContains(row.title, filter.search)
       \/ ILikeContains(row.description, filter.search)

\* LIMIT n OFFSET m, applied when filter.Limit > 0
LimitOffset(q, limit, offset) ==
    IF limit > 0
    THEN SubSeq(q, offset + 1, IF offset + limit < Len(q) THEN offset + limit ELSE Len(q))
    ELSE q

\* PostgresAdapter.List: the (rows, totalCount) results the two queries can give
DbList(s, filter) ==
    LET ids == {i \in DOMAIN s : FilterMatches(s[i], filter)} IN
    {[items |-> RowsOf(s, LimitOffset(q, filter.limit, filter.offset)),
      totalCount |-> Cardinality(ids)] :
        q \in OrderedByPriority(s, ids, filter.sortOrder = "desc")}

\* PostgresAdapter.GetChildren: the results the query can give
DbGetChildren(s, parentId) ==
    {RowsOf(s, q) : q \in OrderedByPriority(s, ChildIds(s, parentId), FALSE)}

\* the decoded value is taken whatever its Go type
CachedListUsableAnyType(c, filter, f) ==
    /\ filter.search = ""
    /\ "get" \notin f
    /\ buildListCacheKey(filter) \in DOMAIN c

\* ListItems, lines 290-298: the cached result is used
CachedListUsable(c, filter, f) ==
    /\ filter.search = ""
    /\ RedisGetAs(c, buildListCacheKey(filter), "*listCacheResult", f)

\* every result is cached, searched or not
ListResultCachedAlways(filter) == TRUE

\* ListItems, line 307: the result is cached if no search query
ListResultCached(filter) == filter.search = ""

ListItems(filter, f) ==
    /\ UNCHANGED <<store, events, bus, nextId, inflight, calls>>
    /\ IF CachedListUsable(cache, filter, f)
       THEN /\ cache' = cache
            /\ Return("ListItems", filter, TRUE, "",
                      JsonUnmarshalAny(cache[buildListCacheKey(filter)]).val, f, FALSE)
       ELSE \E res \in DbList(store, filter) :
            /\ cache' = IF ListResultCached(filter)
                        THEN RedisSet(cache, buildListCacheKey(filter),
                                      JsonMarshal("object", res), f)
                        ELSE cache
            /\ Return("ListItems", filter, TRUE, "", res, f, FALSE)

GetChildren(parentId, f) ==
    /\ UNCHANGED <<store, events, bus, nextId, inflight, calls>>
    /\ IF RedisGetAs(cache, ChildrenKey(parentId), "[]*model.BacklogItem", f)
       THEN /\ cache' = cache
            /\ Return("GetChildren", parentId, TRUE, "",
                      JsonUnmarshalAny(cache[ChildrenKey(parentId)]).val, f, FALSE)
       ELSE \E rows \in DbGetChildren(store, parentId) :
            /\ cache' = RedisSet(cache, ChildrenKey(parentId),
                                 JsonMarshal(IF rows = <<>> THEN "null" ELSE "array", rows), f)
            /\ Return("GetChildren", parentId, TRUE, "", rows, f, FALSE)

\* ReorderItems, lines 354-358: the map built from the requests (a later
\* request for the same id overwrites an earlier one)
RECURSIVE BuildPriorities(_, _)
BuildPriorities(reqs, m) ==
    IF reqs = <<>> THEN m
    ELSE BuildPriorities(Tail(reqs), MapPut(m, Head(reqs).itemId, Head(reqs).newPriority))

\* the UPDATE ... SET priority = $1 WHERE id = $3 statements of the first n
\* ids of the batch (an id without a row updates nothing)
RECURSIVE ExecPriorities(_, _, _, _)
ExecPriorities(s, m, order, n) ==
    IF n = 0 THEN s
    ELSE LET t == ExecPriorities(s, m, order, n - 1)
             id == order[n]
         IN  IF id \in DOMAIN t THEN [t EXCEPT ![id].priority = m[id]] ELSE t

\* the ids of the batch in some iteration order of the Go map
MapOrders(m) ==
    {q \in [1..Cardinality(DOMAIN m) -> DOMAIN m] :
        \A i, j \in 1..Cardinality(DOMAIN m) : i # j => q[i] # q[j]}

\* without the transaction: the statements before the failing one stay
UpdatePrioritiesNoRollback(s, m, order, failAt) ==
    IF failAt = 0
    THEN [ok |-> TRUE, store |-> ExecPriorities(s, m, order, Len(order))]
    ELSE [ok |-> FALSE,
          store |-> ExecPriorities(s, m, order,
                                   IF failAt > Len(order) THEN Len(order) ELSE failAt - 1)]

\* PostgresAdapter.UpdatePriorities inside PostgresAdapter.Transaction:
\* failAt = 0 commits; failAt = k <= Len(order) fails the k-th statement and
\* rolls back; failAt = Len(order) + 1 fails the commit
UpdatePriorities(s, m, order, failAt) ==
    IF failAt = 0
    THEN [ok |-> TRUE, store |-> ExecPriorities(s, m, order, Len(order))]
    ELSE [ok |-> FALSE, store |-> s]

ReorderItems(reorderRequests, f, failAt) ==
    /\ calls < MaxCalls
    /\ calls' = calls + 1
    /\ UNCHANGED <<inflight, nextId>>
    /\ IF reorderRequests = <<>>
       THEN /\ failAt = 0
            /\ "db" \notin f
            /\ Return("ReorderItems", reorderRequests, TRUE, "", Nil, f, FALSE)
            /\ UNCHANGED <<store, events, bus, cache>>
       ELSE LET itemPriorities == BuildPriorities(reorderRequests, EmptyMap)
                reorderEvent == NewItemsReorderedEvent(itemPriorities)
            IN  \E order \in MapOrders(itemPriorities) :
                /\ failAt <= Len(order) + 1
                /\ (failAt # 0) = ("db" \in f)
                /\ LET r == UpdatePriorities(store, itemPriorities, order, failAt) IN
                   /\ store' = r.store
                   /\ IF r.ok
                      THEN /\ events' = StoreEvent(events, store', reorderEvent, f)
                           /\ bus' = Publish(bus, "backlog.items.reordered", reorderEvent, f)
                           /\ cache' = invalidateListCache(cache, f)
                           /\ Return("ReorderItems", reorderRequests, ErrorAfterWrite(f) = "",
                                     ErrorAfterWrite(f), Nil, f, TRUE)
                      ELSE /\ UNCHANGED <<events, bus, cache>>
                           /\ Return("ReorderItems", reorderRequests, FALSE,
                                     "failed to update priority", Nil, f, FALSE)

SetExternalID(id, system, externalID, f) ==
    /\ calls < MaxCalls
    /\ calls' = calls + 1
    /\ UNCHANGED inflight
    /\ LET args == [id |-> id, system |-> system, externalID |-> externalID] IN
       IF id \notin DOMAIN store
       THEN Abort("SetExternalID", args, "backlog item not found", f)
       ELSE LET item == [store[id] EXCEPT !.externalIds = MapPut(@, system, externalID)]
                externalIDEvent == NewExternalIDSetEvent(id, system, externalID)
            IN  IF "db" \in f \/ ~RowAccepted(store, item)
                THEN Abort("SetExternalID", args, "failed to update backlog item", f)
                ELSE /\ store' = DbUpdate(store, item)
                     /\ nextId' = nextId
                     /\ events' = StoreEvent(events, store', externalIDEvent, f)
                     /\ bus' = Publish(bus, "backlog.item.external_id.set", externalIDEvent, f)
                     /\ cache' = DeleteItemKey(cache, id, f)
                     /\ Return("SetExternalID", args, ErrorAfterWrite(f) = "", ErrorAfterWrite(f),
                            Nil, f, TRUE)

\* a Redis entry reaches its TTL
Expire(key) ==
    /\ key \in DOMAIN cache
    /\ cache' = RedisDelete(cache, {key})
    /\ UNCHANGED <<store, events, bus, nextId, inflight, last, calls, consumer>>

\* PostgresAdapter.GetEventsByItemID: the rows WHERE item_id = $1 in
\* insertion order, each payload decoded by the switch on event_type (which
\* has no case for ITEMS_REORDERED or any other string)
GetEventsByItemID(ev, itemID) ==
    LET rows == SelectSeq(ev, LAMBDA e : e.item_id = itemID) IN
    IF \E i \in DOMAIN rows :
          rows[i].event_type \notin {EventTypeItemCreated, EventTypeItemUpdated,
                                     EventTypeItemDeleted, EventTypeExternalIDSet}
    THEN [err |-> "unknown event type", events |-> <<>>]
    ELSE [err |-> "", events |-> [i \in DOMAIN rows |-> rows[i].payload]]

\* ReplayEvents, lines 897-906: the updates and external ids applied in order
RECURSIVE ApplyEvents(_, _)
ApplyEvents(item, evs) ==
    IF evs = <<>> THEN item
    ELSE ApplyEvents(
           CASE Head(evs).type = EventTypeItemUpdated -> Head(evs).item
             [] Head(evs).type = EventTypeExternalIDSet ->
                  [item EXCEPT !.externalIds = MapPut(@, Head(evs).system, Head(evs).externalId)]
             [] OTHER -> item,
           Tail(evs))

\* PostgresAdapter.ReplayEvents
ReplayEvents(itemID) ==
    /\ UNCHANGED <<store, events, bus, cache, nextId, inflight, calls>>
    /\ LET got == GetEventsByItemID(events, itemID)
           created == SelectSeq(got.events, LAMBDA e : e.type = EventTypeItemCreated)
       IN  IF got.err # ""
           THEN Return("ReplayEvents", itemID, FALSE, got.err, Nil, {}, FALSE)
           ELSE IF got.events = <<>>
           THEN Return("ReplayEvents", itemID, FALSE, "no events found for item", Nil, {}, FALSE)
           ELSE IF created = <<>>
           THEN Return("ReplayEvents", itemID, FALSE, "created event not found for item",
                       Nil, {}, FALSE)
           ELSE Return("ReplayEvents", itemID, TRUE, "",
                       ApplyEvents(created[1].item, got.events), {}, FALSE)

-----------------------------------------------------------------------------
(* Metrics helpers of the service.  The float64 ratios are computed exactly, *)
(* as fractions [num, den]; a lead time is a whole number of days.           *)

abs(x) == IF x < 0 THEN -x ELSE x

\* calculateIcebergRatio: 1.0 - (deviation / 2.0) with
\* deviation = |e/total - 0.33| + |f/total - 0.33| + |s/total - 0.33|,
\* as the fraction over 200 * total
calculateIcebergRatio(sizeCounts) ==
    LET total == sizeCounts[ItemTypeEpic] + sizeCounts[ItemTypeFeature]
                    + sizeCounts[ItemTypeStory]
        deviation100 == abs(100 * sizeCounts[ItemTypeEpic] - 33 * total)
                           + abs(100 * sizeCounts[ItemTypeFeature] - 33 * total)
                           + abs(100 * sizeCounts[ItemTypeStory] - 33 * total)
    IN  IF total = 0 THEN [num |-> 0, den |-> 1]
        ELSE [num |-> 200 * total - deviation100, den |-> 200 * total]

\* the WIP and lead time tested ahead of the total
determineHealthStatusWarningFirst(sizeCounts, wipCount, leadTime) ==
    LET totalItems == sizeCounts[ItemTypeEpic] + sizeCounts[ItemTypeFeature]
                         + sizeCounts[ItemTypeStory]
    IN  IF wipCount > 20 \/ leadTime > 60 THEN "WARNING"
        ELSE IF totalItems > 150 THEN "AT_RISK"
        ELSE IF totalItems <= 100 /\ wipCount <= 10 /\ leadTime <= 30 THEN "HEALTHY"
        ELSE "AVERAGE"

determineHealthStatus(sizeCounts, wipCount, leadTime) ==
    LET totalItems == sizeCounts[ItemTypeEpic] + sizeCounts[ItemTypeFeature]
                         + sizeCounts[ItemTypeStory]
    IN  IF totalItems > 150 THEN "AT_RISK"
        ELSE IF wipCount > 20 \/ leadTime > 60 THEN "WARNING"
        ELSE IF totalItems <= 100 /\ wipCount <= 10 /\ leadTime <= 30 THEN "HEALTHY"
        ELSE "AVERAGE"

\* MetricsRepository.GetBacklogSize: SELECT type, COUNT(*) ... WHERE status != 'DONE'
\* GROUP BY type, over a map initialised with zeros
GetBacklogSize(s) ==
    [t \in {ItemTypeEpic, ItemTypeFeature, ItemTypeStory} |->
        Cardinality({i \in DOMAIN s : s[i].type = t /\ s[i].status # ItemStatusDone})]

\* MetricsRepository.GetWIPCounts: SELECT COUNT(*) ... WHERE status = 'IN_PROGRESS'
GetWIPCounts(s) ==
    Cardinality({i \in DOMAIN s : s[i].status = ItemStatusInProgress})

\* MetricsRepository.GetLeadTime: SELECT AVG(...) ... WHERE status = 'DONE' AND
\* updated_at >= NOW() - 30 days, scanned into a float64.  Over no rows AVG
\* is NULL and the Scan fails; over some rows it is avg.  The rows written
\* during a run are all inside the window.
GetLeadTime(s, avg) ==
    IF {i \in DOMAIN s : s[i].status = ItemStatusDone} = {}
    THEN [err |-> "failed to query lead time", val |-> 0]
    ELSE [err |-> "", val |-> avg]

\* MetricsRepository.GetThroughput: SELECT COUNT(*) over the same rows
GetThroughput(s) ==
    Cardinality({i \in DOMAIN s : s[i].status = ItemStatusDone})

\* BacklogService.GetMetrics; avg is the average the lead time query computes
\* when it has rows (the average age is not modelled)
GetMetrics(f, avg) ==
    /\ UNCHANGED <<store, events, bus, nextId, inflight, calls>>
    /\ IF RedisGetAs(cache, MetricsKey, "*service.BacklogMetrics", f)
       THEN /\ cache' = cache
            /\ Return("GetMetrics", Nil, TRUE, "", JsonUnmarshalAny(cache[MetricsKey]).val,
                      f, FALSE)
       ELSE LET sizeCounts == GetBacklogSize(store)
                wipCount == GetWIPCounts(store)
                leadTime == GetLeadTime(store, avg)
                metrics ==
                    [TotalItems |-> sizeCounts[ItemTypeEpic] + sizeCounts[ItemTypeFeature]
                                       + sizeCounts[ItemTypeStory],
                     EpicCount |-> sizeCounts[ItemTypeEpic],
                     FeatureCount |-> sizeCounts[ItemTypeFeature],
                     StoryCount |-> sizeCounts[ItemTypeStory],
                     WIPCount |-> wipCount,
                     LeadTimeDays |-> leadTime.val,
                     ThroughputLast30Days |-> GetThroughput(store),
                     IcebergRatio |-> calculateIcebergRatio(sizeCounts),
                     HealthStatus |-> determineHealthStatus(sizeCounts, wipCount, leadTime.val)]
            IN  IF leadTime.err # ""
                THEN /\ cache' = cache
                     /\ Return("GetMetrics", Nil, FALSE, leadTime.err, Nil, f, FALSE)
                ELSE /\ cache' = RedisSet(cache, MetricsKey, JsonMarshal("object", metrics), f)
                     /\ Return("GetMetrics", Nil, TRUE, "", metrics, f, FALSE)

-----------------------------------------------------------------------------
(* KafkaConsumer.ConsumeMessages, one step per call it makes.  consumer.pc   *)
(* is the position in the loop, offset the number of messages read so far,   *)
(* msg the offset of the message in hand, handled the handler calls made     *)
(* (message offset and outcome), commits the offsets of the messages for     *)
(* which CommitMessage was called, cancelled whether ctx has been            *)
(* cancelled.  The topic is the sequence bus.  A ReadMessage that times out  *)
(* (after 100 ms) or fails goes round the loop and changes nothing.          *)

\* the caller cancels ctx
Cancel ==
    /\ ~consumer.cancelled
    /\ consumer.pc # "done"
    /\ consumer' = [consumer EXCEPT !.cancelled = TRUE]
    /\ UNCHANGED <<store, events, bus, cache, nextId, inflight, last, calls>>

\* a loop without the ctx.Done() case
ContextDoneNotSelected ==
    /\ consumer.pc = "read"
    /\ consumer.cancelled
    /\ consumer.offset < Len(bus)
    /\ consumer' = [consumer EXCEPT !.pc = "handle", !.offset = @ + 1, !.msg = consumer.offset + 1]
    /\ UNCHANGED <<store, events, bus, cache, nextId, inflight, last, calls>>

\* case <-ctx.Done(): return ctx.Err()
ContextDone ==
    /\ consumer.pc = "read"
    /\ consumer.cancelled
    /\ consumer' = [consumer EXCEPT !.pc = "done"]
    /\ UNCHANGED <<store, events, bus, cache, nextId, inflight, last, calls>>

\* default: (taken only while ctx.Done() is not ready)
\* c.consumer.ReadMessage returns the next message of the topic
ReadMessage ==
    /\ consumer.pc = "read"
    /\ ~consumer.cancelled
    /\ consumer.offset < Len(bus)
    /\ consumer' = [consumer EXCEPT !.pc = "handle", !.offset = @ + 1, !.msg = consumer.offset + 1]
    /\ UNCHANGED <<store, events, bus, cache, nextId, inflight, last, calls>>

\* the handler's error ignored: the loop goes on to CommitMessage
MessageHandlerErrorIgnored(ok) ==
    /\ consumer.pc = "handle"
    /\ consumer' = [consumer EXCEPT
                      !.pc = "commit",
                      !.handled = Append(@, [offset |-> consumer.msg, ok |-> ok])]
    /\ UNCHANGED <<store, events, bus, cache, nextId, inflight, last, calls>>

\* err = handler(msg); on an error the loop logs and continues
MessageHandler(ok) ==
    /\ consumer.pc = "handle"
    /\ consumer' = [consumer EXCEPT
                      !.pc = IF ok THEN "commit" ELSE "read",
                      !.handled = Append(@, [offset |-> consumer.msg, ok |-> ok])]
    /\ UNCHANGED <<store, events, bus, cache, nextId, inflight, last, calls>>

\* c.consumer.CommitMessage(msg); its error is logged
CommitMessage ==
    /\ consumer.pc = "commit"
    /\ consumer' = [consumer EXCEPT !.pc = "read", !.commits = Append(@, consumer.msg)]
    /\ UNCHANGED <<store, events, bus, cache, nextId, inflight, last, calls>>

-----------------------------------------------------------------------------
(* Specifications *)

NoCall == [op |-> "none", args |-> Nil, ok |-> TRUE, err |-> "", res |-> Nil,
           fails |-> {}, wrote |-> FALSE]

Init ==
    /\ store = EmptyMap
    /\ events = <<>>
    /\ bus = <<>>
    /\ cache = EmptyMap
    /\ nextId = 0
    /\ inflight = {}
    /\ last = NoCall
    /\ calls = 0
    /\ consumer = [pc |-> "read", offset |-> 0, msg |-> 0, handled |-> <<>>,
                   commits |-> <<>>, cancelled |-> FALSE]

\* infrastructure outcomes: everything works, or Redis is unreachable
CacheDown == {"get", "set", "del_item", "del_list", "del_metrics"}
Fails == {{}, CacheDown}

BaseCreate(t, p) ==
    [type |-> t, title |-> "a", description |-> "", parentId |-> p,
     storyPoints |-> 0, tags |-> <<>>, assignee |-> ""]

ItemTypes == {ItemTypeEpic, ItemTypeFeature, ItemTypeStory}

CreateReqs ==
    {BaseCreate(t, p) : t \in ItemTypes, p \in {Nil} \cup Ids}
    \cup {[BaseCreate(t, Nil) EXCEPT !.tags = <<"x", "y", "x">>, !.storyPoints = 2,
                                     !.description = "d", !.assignee = "u"] :
            t \in ItemTypes}
    \cup {[BaseCreate(ItemTypeStory, Nil) EXCEPT !.title = ""],
          [BaseCreate("TASK", Nil) EXCEPT !.title = "a"]}

UpdateReqs == {[title |-> "b"], [title |-> "b", status |-> ItemStatusDone]}

DoCreateItem == \E req \in CreateReqs : CreateItem(req, {})
DoGetItem == \E id \in Ids, f \in Fails : GetItem(id, f)
DoUpdateItem == \E id \in Ids, req \in UpdateReqs, f \in Fails : UpdateItem(id, req, f)
DoDeleteItem == \E id \in Ids, f \in Fails : DeleteItem(id, f)
DoExpire == \E key \in DOMAIN cache : Expire(key)

Next ==
    \/ DoCreateItem
    \/ DoGetItem
    \/ DoUpdateItem
    \/ DoDeleteItem
    \/ DoExpire

Spec == Init /\ [][Next]_vars

-----------------------------------------------------------------------------
(* Claims checked under Spec *)

TagSet(tags) == {tags[i] : i \in DOMAIN tags}

\* C1: after a successful UpdateItem(id, title := t2), the GetItem(id) that
\* follows it returns the item with title t2, also when an earlier GetItem
\* had stored the old item under item:<id>.
C1_GetAfterUpdateSeesTitle ==
    [][(/\ last.op = "UpdateItem" /\ last.ok
        /\ "title" \in DOMAIN last.args.req
        /\ last'.op = "GetItem" /\ last'.args = last.args.id)
       => (last'.ok /\ last'.res.title = last.args.req.title)]_vars

\* an UpdateItem has changed the title (the last event is its ITEM_UPDATED)
\* and could not delete item:<id>; the GetItem after it returned the new
\* title while the copy an earlier GetItem cached is still in Redis
C1_Witness ==
    /\ last.op = "GetItem" /\ last.ok
    /\ events # <<>>
    /\ events[Len(events)].payload.type = EventTypeItemUpdated
    /\ events[Len(events)].payload.itemId = last.args
    /\ ItemKey(last.args) \in DOMAIN cache
    /\ cache[ItemKey(last.args)].val.title # store[last.args].title
    /\ last.res.title = store[last.args].title
    /\ last.res.title = events[Len(events)].payload.item.title

\* C4: run sequentially, DeleteItem of an item with a child fails with the
\* has-children error and changes neither store, event log nor cache;
\* DeleteItem of a stored childless item succeeds and removes it; GetItem of
\* an id that is not stored fails with not-found.
C4_DeleteItemSequential ==
    [][/\ (calls' = calls + 1 /\ last'.op = "DeleteItem"
            /\ ChildIds(store, last'.args) # {})
          => (/\ ~last'.ok
              /\ last'.err = "cannot delete item with children"
              /\ UNCHANGED <<store, events, bus, cache>>)
       /\ (calls' = calls + 1 /\ last'.op = "DeleteItem"
            /\ last'.args \in DOMAIN store /\ ChildIds(store, last'.args) = {})
          => (last'.ok /\ last'.args \notin DOMAIN store')
       /\ (last'.op = "GetItem" /\ last'.args \notin DOMAIN store')
          => (~last'.ok /\ last'.err = "backlog item not found")]_vars

\* a deleted item whose cached copy outlived the delete, asked for again
C4_Witness ==
    /\ last.op = "GetItem" /\ ~last.ok
    /\ events # <<>>
    /\ events[Len(events)].payload.type = EventTypeItemDeleted
    /\ events[Len(events)].payload.itemId = last.args
    /\ ItemKey(last.args) \in DOMAIN cache

\* C5 as stated: GetItem of a just created item yields status NEW, priority
\* 0, no tags and no external ids, whatever the other arguments were.
C5_CreatedItemHasNoTags ==
    [][(/\ last.op = "CreateItem" /\ last.ok
        /\ last'.op = "GetItem" /\ last'.args = last.res.id)
       => (/\ last'.ok
           /\ last'.res.status = ItemStatusNew
           /\ last'.res.priority = 0
           /\ last'.res.tags = <<>>
           /\ last'.res.externalIds = EmptyMap)]_vars

\* C5 amended: GetItem of a just created item yields status NEW, priority 0,
\* no external ids, and as tags the distinct tags of the request, each once.
C5_CreatedItemDefaults ==
    [][(/\ last.op = "CreateItem" /\ last.ok
        /\ last'.op = "GetItem" /\ last'.args = last.res.id)
       => (/\ last'.ok
           /\ last'.res.status = ItemStatusNew
           /\ last'.res.priority = 0
           /\ TagSet(last'.res.tags) = TagSet(last.args.tags)
           /\ Len(last'.res.tags) = Cardinality(TagSet(last.args.tags))
           /\ last'.res.externalIds = EmptyMap)]_vars

\* an item created with tags, story points, description and assignee is read
C5_Witness ==
    /\ last.op = "GetItem" /\ last.ok
    /\ events # <<>>
    /\ events[Len(events)].payload.type = EventTypeItemCreated
    /\ events[Len(events)].payload.itemId = last.args
    /\ last.res.tags = <<"x", "y">> /\ last.res.storyPoints = 2
    /\ last.res.description = "d"
    /\ last.res.status = ItemStatusNew /\ last.res.priority = 0

\* C6: CreateItem with a parentId succeeds only under a stored parent with the
\* pairing EPIC-FEATURE or FEATURE-STORY; a FEATURE under a stored STORY
\* fails with the invalid-relationship error and writes no row, event or
\* message; a FEATURE under a stored EPIC succeeds.
C6_CreateUnderParent ==
    [][(calls' = calls + 1 /\ last'.op = "CreateItem" /\ last'.args.parentId # Nil)
       => LET req == last'.args
              p == req.parentId
          IN  /\ last'.ok =>
                    /\ p \in DOMAIN store
                    /\ <<store[p].type, req.type>> \in
                          {<<ItemTypeEpic, ItemTypeFeature>>, <<ItemTypeFeature, ItemTypeStory>>}
              /\ (req.type = ItemTypeFeature /\ p \in DOMAIN store
                   /\ store[p].type = ItemTypeStory)
                 => (/\ ~last'.ok
                     /\ last'.err = "invalid parent-child relationship"
                     /\ UNCHANGED <<store, events, bus>>)
              /\ (req.type = ItemTypeFeature /\ p \in DOMAIN store
                   /\ store[p].type = ItemTypeEpic)
                 => (/\ last'.ok
                     /\ last'.res.id \in DOMAIN store' \ DOMAIN store
                     /\ store'[last'.res.id].parentId = p)]_vars

\* a FEATURE was refused under a STORY
C6_Witness ==
    /\ last.op = "CreateItem" /\ ~last.ok
    /\ last.args.type = ItemTypeFeature
    /\ last.args.parentId \in DOMAIN store
    /\ store[last.args.parentId].type = ItemTypeStory
    /\ last.err = "invalid parent-child relationship"

-----------------------------------------------------------------------------
(* SpecTree: the operations that write rows, with every parent reference *)

TreeCreateReqs == {BaseCreate(t, p) : t \in ItemTypes, p \in {Nil, UuidNil} \cup Ids}
TreeUpdateReqs == {[parentId |-> p] : p \in {UuidNil} \cup Ids}
                  \cup {[status |-> ItemStatusReady]}

TreeCreateItem == \E req \in TreeCreateReqs : CreateItem(req, {})
TreeUpdateItem == \E id \in Ids, req \in TreeUpdateReqs : UpdateItem(id, req, {})
TreeDeleteItem == \E id \in Ids : DeleteItem(id, {})
TreeReorderItems ==
    \E id \in Ids : ReorderItems(<<[itemId |-> id, newPriority |-> 1]>>, {}, 0)
TreeSetExternalID == \E id \in Ids : SetExternalID(id, "jira", "J-1", {})

NextTree ==
    \/ TreeCreateItem
    \/ TreeUpdateItem
    \/ TreeDeleteItem
    \/ TreeReorderItems
    \/ TreeSetExternalID

SpecTree == Init /\ [][NextTree]_vars

\* C2: in every reachable state of the store no EPIC has a parent, every
\* FEATURE with a parent has a stored parent of type EPIC, and every STORY
\* with a parent has a stored parent of type FEATURE.
C2_ParentChain ==
    \A i \in DOMAIN store :
        LET row == store[i] IN
        /\ row.type = ItemTypeEpic => row.parentId = Nil
        /\ (row.type = ItemTypeFeature /\ row.parentId # Nil)
             => (row.parentId \in DOMAIN store
                 /\ store[row.parentId].type = ItemTypeEpic)
        /\ (row.type = ItemTypeStory /\ row.parentId # Nil)
             => (row.parentId \in DOMAIN store
                 /\ store[row.parentId].type = ItemTypeFeature)

\* an UpdateItem has given a stored item a parent
C2_Witness ==
    /\ last.op = "UpdateItem" /\ last.ok
    /\ "parentId" \in DOMAIN last.args.req
    /\ store[last.args.id].parentId = last.args.req.parentId
    /\ store[last.args.id].parentId \in DOMAIN store

\* C39: UpdateItem with parentId present and empty (the nil UUID) succeeds
\* for an item of any type and leaves the persisted item without a parent;
\* UpdateItem with parentId absent leaves the parent as it was.
C39_EmptyParentClearsParent ==
    [][(calls' = calls + 1 /\ last'.op = "UpdateItem" /\ last'.args.id \in DOMAIN store)
       => /\ ("parentId" \in DOMAIN last'.args.req /\ last'.args.req.parentId = UuidNil)
                => /\ last'.ok
                   /\ store'[last'.args.id].parentId = Nil
          /\ ("parentId" \notin DOMAIN last'.args.req /\ last'.ok)
                => store'[last'.args.id].parentId = store[last'.args.id].parentId]_vars

-----------------------------------------------------------------------------
(* SpecOrder: reordering and listing *)

Priorities == 1..MaxPriority

ReorderReq(id, pr) == [itemId |-> id, newPriority |-> pr]

ReorderBatches ==
    {<<>>, <<ReorderReq(1, 1), ReorderReq(1, MaxPriority)>>}
    \cup {<<ReorderReq(MaxItems, 1)>>}
    \cup {<<ReorderReq(1, p1), ReorderReq(2, p2)>> : p1 \in Priorities, p2 \in {1, MaxPriority}}

NoFilter ==
    [types |-> {}, statuses |-> {}, parentId |-> Nil, assignee |-> "",
     tags |-> <<>>, search |-> "", sortBy |-> "", sortOrder |-> "",
     limit |-> 0, offset |-> 0]

OrderFilters ==
    {NoFilter,
     [NoFilter EXCEPT !.sortBy = "priority", !.sortOrder = "desc"],
     [NoFilter EXCEPT !.types = {ItemTypeStory}, !.limit = 1]}

OrderCreateItem == \E t \in {ItemTypeEpic, ItemTypeStory} : CreateItem(BaseCreate(t, Nil), {})
OrderReorderItems ==
    \E batch \in ReorderBatches, f \in {{}, {"db"}, {"del_list"}}, failAt \in 0..3 :
        ReorderItems(batch, f, failAt)
OrderListItems == \E filter \in OrderFilters, f \in {{}, {"set"}} : ListItems(filter, f)

NextOrder ==
    \/ OrderCreateItem
    \/ OrderReorderItems
    \/ OrderListItems

SpecOrder == Init /\ [][NextOrder]_vars

BatchIds(batch) == {batch[i].itemId : i \in DOMAIN batch}

\* the priority a batch asks for an id: that of its last request for the id
AskedPriority(batch, id) ==
    LET k == CHOOSE i \in DOMAIN batch :
                 /\ batch[i].itemId = id
                 /\ \A j \in DOMAIN batch : batch[j].itemId = id => j <= i
    IN  batch[k].newPriority

\* C7: every ReorderItems batch is all-or-nothing: the call succeeds and every
\* id named in the batch has its new priority in the store, or the call fails
\* and no stored priority has changed.
C7_ReorderAllOrNothing ==
    [][(calls' = calls + 1 /\ last'.op = "ReorderItems")
       => \/ /\ last'.ok
             /\ \A id \in BatchIds(last'.args) :
                   /\ id \in DOMAIN store'
                   /\ store'[id].priority = AskedPriority(last'.args, id)
          \/ /\ ~last'.ok
             /\ store' = store]_vars

Position(items, id) == CHOOSE i \in DOMAIN items : items[i].id = id

\* C8: after a successful ReorderItems that leaves item A with a priority
\* greater than item B's, the ListItems that follows it, sorted by priority
\* ascending without search, returns B before A.
C8_ListAfterReorder ==
    [][(/\ last.op = "ReorderItems" /\ last.ok
        /\ last'.op = "ListItems"
        /\ last'.args.search = "" /\ last'.args.sortOrder # "desc")
       => /\ last'.ok
          /\ \A a, b \in BatchIds(last.args) \cap DOMAIN store :
                (/\ AskedPriority(last.args, a) > AskedPriority(last.args, b)
                 /\ \E i \in DOMAIN last'.res.items : last'.res.items[i].id = a
                 /\ \E i \in DOMAIN last'.res.items : last'.res.items[i].id = b)
                => Position(last'.res.items, b) < Position(last'.res.items, a)]_vars

\* a reorder put item 1 behind item 2 and could not delete list:all, which
\* still holds the result of an earlier ListItems; the list is read again
C8_Witness ==
    /\ events # <<>>
    /\ events[Len(events)].payload.type = EventTypeItemsReordered
    /\ {1, 2} \subseteq DOMAIN store
    /\ store[1].priority > store[2].priority
    /\ last.op = "ListItems" /\ last.args = NoFilter /\ last.ok
    /\ Len(last.res.items) = 2
    /\ last.res.items[1].id = 2
    /\ ListKey \in DOMAIN cache
    /\ cache[ListKey].val.items # last.res.items

-----------------------------------------------------------------------------
(* SpecFail: every mutating operation under infrastructure failures *)

CacheDeletesFail == {"del_item", "del_list", "del_metrics"}

FailSets ==
    {{}, {"db"}, {"event"}, {"publish"}, CacheDeletesFail,
     {"event", "publish"} \cup CacheDeletesFail}

FailCreateItem ==
    \E req \in {BaseCreate(ItemTypeEpic, Nil), BaseCreate(ItemTypeFeature, 1)},
       f \in FailSets : CreateItem(req, f)
FailGetItem == \E id \in Ids : GetItem(id, {})
FailUpdateItem ==
    \E id \in Ids, req \in {[title |-> "b"], [parentId |-> UuidNil]}, f \in FailSets :
        UpdateItem(id, req, f)
FailDeleteItem == \E id \in Ids, f \in FailSets : DeleteItem(id, f)
FailReorderItems ==
    \E batch \in {<<ReorderReq(1, 1), ReorderReq(2, MaxPriority)>>},
       f \in FailSets, failAt \in 0..3 : ReorderItems(batch, f, failAt)
FailSetExternalID == \E id \in Ids, f \in FailSets : SetExternalID(id, "jira", "J-1", f)

NextFail ==
    \/ FailCreateItem
    \/ FailGetItem
    \/ FailUpdateItem
    \/ FailDeleteItem
    \/ FailReorderItems
    \/ FailSetExternalID

SpecFail == Init /\ [][NextFail]_vars

\* the rows of s other than those of ids
Others(s, ids) == [i \in (DOMAIN s) \ ids |-> s[i]]

\* C9: when the persistence write of a mutating operation succeeds, the
\* operation returns success and the persisted state is the one the write
\* produced, whether or not the event append, the publish and the cache
\* deletes fail.
C9_AuxiliaryFailuresInvisible ==
    [][(calls' = calls + 1 /\ last'.wrote)
       => /\ last'.ok
          /\ last'.err = ""
          /\ CASE last'.op = "CreateItem" ->
                    /\ DOMAIN store' = DOMAIN store \cup {last'.res.id}
                    /\ last'.res.id \notin DOMAIN store
                    /\ store'[last'.res.id] = last'.res
                    /\ last'.res.title = last'.args.title
                    /\ last'.res.type = last'.args.type
                    /\ Others(store', {last'.res.id}) = store
               [] last'.op = "UpdateItem" ->
                    /\ DOMAIN store' = DOMAIN store
                    /\ store'[last'.args.id] = last'.res
                    /\ \A n \in DOMAIN last'.args.req \ {"tags"} :
                          last'.res[n] = last'.args.req[n]
                    /\ Others(store', {last'.args.id}) = Others(store, {last'.args.id})
               [] last'.op = "DeleteItem" ->
                    /\ last'.args \in DOMAIN store
                    /\ store' = Others(store, {last'.args})
               [] last'.op = "ReorderItems" ->
                    /\ DOMAIN store' = DOMAIN store
                    /\ \A id \in DOMAIN store :
                          store'[id] =
                            IF id \in BatchIds(last'.args)
                            THEN [store[id] EXCEPT !.priority = AskedPriority(last'.args, id)]
                            ELSE store[id]
               [] last'.op = "SetExternalID" ->
                    /\ DOMAIN store' = DOMAIN store
                    /\ store'[last'.args.id] =
                          [store[last'.args.id] EXCEPT
                              !.externalIds = MapPut(@, last'.args.system, last'.args.externalID)]
                    /\ Others(store', {last'.args.id}) = Others(store, {last'.args.id})]_vars

\* an UpdateItem returned success although the event append, the publish and
\* the cache deletes all failed
C9_Witness ==
    /\ last.op = "UpdateItem" /\ last.ok /\ last.wrote
    /\ last.fails = {"event", "publish"} \cup CacheDeletesFail
    /\ store[last.args.id] = last.res
    /\ last.res.title = "b"

WriteErrors ==
    {"failed to create backlog item", "failed to update backlog item",
     "failed to delete backlog item", "failed to update priority"}

\* C10: when the persistence write of a mutating operation fails, the
\* operation returns an error, no event is appended, no message is published
\* and the persisted state is unchanged.
C10_WriteFailureAborts ==
    [][(calls' = calls + 1 /\ ("db" \in last'.fails \/ last'.err \in WriteErrors))
       => /\ ~last'.ok
          /\ last'.err # ""
          /\ UNCHANGED <<store, events, bus>>]_vars

\* a ReorderItems over two stored items failed at its write
C10_Witness ==
    /\ last.op = "ReorderItems" /\ ~last.ok /\ "db" \in last.fails
    /\ BatchIds(last.args) \subseteq DOMAIN store
    /\ Cardinality(BatchIds(last.args)) = 2

\* the change an event describes was made by the write from store s to store t
Committed(e, s, t) ==
    CASE e.type = EventTypeItemCreated ->
           /\ e.itemId \notin DOMAIN s
           /\ e.itemId \in DOMAIN t
           /\ t[e.itemId] = e.item
      [] e.type = EventTypeItemUpdated ->
           /\ e.itemId \in DOMAIN t
           /\ t[e.itemId] = e.item
      [] e.type = EventTypeItemDeleted ->
           /\ e.itemId \in DOMAIN s
           /\ s[e.itemId] = e.item
           /\ e.itemId \notin DOMAIN t
      [] e.type = EventTypeItemsReordered ->
           \A id \in DOMAIN e.itemPriorities \cap DOMAIN t :
              t[id].priority = e.itemPriorities[id]
      [] OTHER ->
           /\ e.itemId \in DOMAIN s
           /\ t[e.itemId].externalIds = MapPut(s[e.itemId].externalIds, e.system, e.externalId)

EventKind(op) ==
    CASE op = "CreateItem"    -> EventTypeItemCreated
      [] op = "UpdateItem"    -> EventTypeItemUpdated
      [] op = "DeleteItem"    -> EventTypeItemDeleted
      [] op = "ReorderItems"  -> EventTypeItemsReordered
      [] OTHER                -> EventTypeExternalIDSet

\* the event appended by the step is one event of the operation's kind, for
\* ReorderItems with the full id-to-priority map of the batch
OneEventAppended ==
    /\ Len(events') = Len(events) + 1
    /\ \A i \in DOMAIN events : events'[i] = events[i]
    /\ events'[Len(events')].payload.type = EventKind(last'.op)
    /\ last'.op = "ReorderItems" =>
          /\ DOMAIN events'[Len(events')].payload.itemPriorities = BatchIds(last'.args)
          /\ \A id \in BatchIds(last'.args) :
                events'[Len(events')].payload.itemPriorities[id] =
                   AskedPriority(last'.args, id)

\* the step published one message, of the operation's kind
OneMessagePublished ==
    /\ Len(bus') = Len(bus) + 1
    /\ \A i \in DOMAIN bus : bus'[i] = bus[i]
    /\ bus'[Len(bus')].value.type = EventKind(last'.op)

\* C24 as stated: every successful mutating operation (ReorderItems on a
\* non-empty batch included) appends exactly one event of its kind and
\* publishes exactly one message.
C24_OneEventPerSuccess ==
    [][(calls' = calls + 1 /\ last'.ok /\ (last'.op = "ReorderItems" => Len(last'.args) > 0))
       => OneEventAppended /\ OneMessagePublished]_vars

\* C24: a successful mutating operation (ReorderItems on a non-empty batch
\* included) appends exactly one event of its kind when the event append
\* succeeds, the ITEMS_REORDERED event carrying the full id-to-priority map of
\* the batch, and appends none when the append fails; it publishes exactly
\* one message when the publish succeeds and none when it fails.
C24_OneEventPerSuccessUnlessFailed ==
    [][(calls' = calls + 1 /\ last'.ok /\ (last'.op = "ReorderItems" => Len(last'.args) > 0))
       => /\ IF "event" \in last'.fails THEN events' = events ELSE OneEventAppended
          /\ IF "publish" \in last'.fails THEN bus' = bus ELSE OneMessagePublished]_vars

\* a ReorderItems naming two stored items succeeded with one event and one
\* message for the whole batch
C24_Witness ==
    /\ last.op = "ReorderItems" /\ last.ok /\ last.fails = {}
    /\ BatchIds(last.args) \subseteq DOMAIN store
    /\ Cardinality(BatchIds(last.args)) = 2
    /\ events[Len(events)].payload.type = EventTypeItemsReordered
    /\ DOMAIN events[Len(events)].payload.itemPriorities = BatchIds(last.args)
    /\ Len(events) = 3
    /\ Len(bus) = 3

\* C26: after a DeleteItem(id) that succeeds with the event store working,
\* the newest event of the log is an ITEM_DELETED event for id carrying the
\* item as it was stored before the delete.
C26_DeleteAppendsItemDeleted ==
    [][(/\ calls' = calls + 1
        /\ last'.op = "DeleteItem" /\ last'.ok
        /\ "event" \notin last'.fails)
       => /\ last'.args \in DOMAIN store
          /\ events' # <<>>
          /\ events'[Len(events')].payload =
                NewItemDeletedEvent(last'.args, store[last'.args])]_vars

\* an item that had been updated was deleted, and the log ends with its
\* ITEM_DELETED event carrying the updated title
C26_Witness ==
    /\ last.op = "DeleteItem" /\ last.ok /\ "event" \notin last.fails
    /\ last.args \notin DOMAIN store
    /\ events # <<>>
    /\ events[Len(events)].payload.type = EventTypeItemDeleted
    /\ events[Len(events)].payload.itemId = last.args
    /\ events[Len(events)].payload.item.title = "b"

-----------------------------------------------------------------------------
(* SpecConc: DeleteItem in two steps, interleaved with other requests *)

ConcCreateItem ==
    \E req \in {BaseCreate(ItemTypeEpic, Nil), BaseCreate(ItemTypeFeature, 1)} :
        CreateItem(req, {})
ConcUpdateItem == \E id \in Ids, p \in Ids : UpdateItem(id, [parentId |-> p], {})
ConcDeleteItemCheck == \E id \in Ids : DeleteItemCheck(id)
ConcDeleteItemFinish == \E r \in inflight : DeleteItemFinish(r, {})
ConcGetItem == \E id \in Ids : GetItem(id, {})

NextConc ==
    \/ ConcCreateItem
    \/ ConcUpdateItem
    \/ ConcDeleteItemCheck
    \/ ConcDeleteItemFinish
    \/ ConcGetItem

SpecConc == Init /\ [][NextConc]_vars

\* C3: in every interleaving of DeleteItem(p) with CreateItem(parentId = p)
\* and UpdateItem(parentId := p), a successful DeleteItem(p) removes p only
\* when no stored item references p as its parent, so no item loses its
\* parent through a DeleteItem.
C3_DeleteNeverOrphans ==
    [][(inflight' # inflight /\ last'.op = "DeleteItem" /\ last'.ok
        /\ last'.args \in DOMAIN store /\ last'.args \notin DOMAIN store')
       => /\ ChildIds(store, last'.args) = {}
          /\ \A i \in DOMAIN store' : store'[i].parentId = store[i].parentId]_vars

-----------------------------------------------------------------------------
(* SpecValid: valid and invalid field values *)

ValidCreateReqs ==
    {BaseCreate(ItemTypeStory, Nil), BaseCreate("TASK", Nil)}
    \cup {[BaseCreate(ItemTypeStory, Nil) EXCEPT !.title = t] : t \in {"", " "}}
    \cup {[BaseCreate(ItemTypeStory, Nil) EXCEPT !.storyPoints = p] : p \in {-1, 2}}

ValidUpdateReqs ==
    {[title |-> t] : t \in {"", " ", "b"}}
    \cup {[storyPoints |-> p] : p \in {-1, 2}}
    \cup {[status |-> st] : st \in {"BOGUS", ItemStatusReady}}
    \cup {[title |-> "b", status |-> "BOGUS"], [title |-> "b", parentId |-> MaxItems]}

NextValid ==
    \/ \E req \in ValidCreateReqs : CreateItem(req, {})
    \/ \E id \in Ids, req \in ValidUpdateReqs : UpdateItem(id, req, {})
    \/ \E id \in Ids : UpdateItem(id, [title |-> "b", storyPoints |-> 2], {"db"})
    \/ \E id \in Ids : ReorderItems(<<ReorderReq(id, 1)>>, {}, 0)
    \/ \E id \in Ids : SetExternalID(id, "jira", "J-1", {})
    \/ \E id \in Ids : DeleteItem(id, {})
    \/ \E id \in Ids : GetItem(id, {})

SpecValid == Init /\ [][NextValid]_vars

InvalidCreate(req) ==
    req.title = "" \/ req.storyPoints < 0 \/ ~isValidItemType(req.type)

InvalidUpdate(req) ==
    \/ "title" \in DOMAIN req /\ req.title = ""
    \/ "storyPoints" \in DOMAIN req /\ req.storyPoints < 0
    \/ "status" \in DOMAIN req /\ ~isValidItemStatus(req.status)

\* C11: CreateItem and UpdateItem called with an empty title, a negative
\* storyPoints or an invalid type or status return an error and leave the
\* store, the event log, the bus and the cache unchanged.
C11_InvalidInputRejected ==
    [][(/\ calls' = calls + 1
        /\ \/ last'.op = "CreateItem" /\ InvalidCreate(last'.args)
           \/ last'.op = "UpdateItem" /\ InvalidUpdate(last'.args.req))
       => /\ ~last'.ok
          /\ UNCHANGED <<store, events, bus, cache>>]_vars

C18_GetItemReadThrough ==
    [][(calls' = calls /\ last'.op = "GetItem" /\ <<last, cache>>' # <<last, cache>>
        /\ last'.fails = {})
       => LET id == last'.args IN
          IF ItemKey(id) \in DOMAIN cache
          THEN /\ last'.ok
               /\ last'.res = cache[ItemKey(id)].val
               /\ cache' = cache
          ELSE IF id \in DOMAIN store
          THEN /\ last'.ok
               /\ last'.res = store[id]
               /\ ItemKey(id) \in DOMAIN cache'
               /\ cache'[ItemKey(id)].val = store[id]
          ELSE /\ ~last'.ok
               /\ last'.err = "backlog item not found"
               /\ cache' = cache]_vars

\* C35: a GetItem(id) that follows a successful ReorderItems naming id
\* returns the item with the priority the batch asked for, also when the
\* cache still holds the copy an earlier GetItem(id) stored.
C35_GetAfterReorderSeesPriority ==
    [][(/\ last'.op = "GetItem" /\ last'.ok
        /\ last.op = "ReorderItems" /\ last.ok
        /\ last'.args \in BatchIds(last.args))
       => /\ last'.res.priority = AskedPriority(last.args, last'.args)
          /\ last'.res = store[last'.args]]_vars

\* a GetItem after a reorder returned priority 1 for an item created with
\* priority 0
C35_Witness ==
    /\ last.op = "GetItem" /\ last.ok
    /\ last.res.priority = 1
    /\ events # <<>>
    /\ events[Len(events)].payload.type = EventTypeItemsReordered
    /\ last.args \in DOMAIN events[Len(events)].payload.itemPriorities
    /\ events[1].payload.item.priority = 0

\* C36: the row an UpdateItem, DeleteItem or SetExternalID persists is
\* computed from the stored row and the request alone: a successful call
\* leaves the request applied to the row as it was in the store, a failed
\* one leaves the store as it was, whatever the cache holds (a copy that a
\* ReorderItems has made stale included).
C36_WritesLoadFromStore ==
    [][(calls' = calls + 1 /\ last'.op \in {"UpdateItem", "DeleteItem", "SetExternalID"})
       => IF ~last'.ok THEN store' = store
          ELSE CASE last'.op = "UpdateItem" ->
                      /\ last'.args.id \in DOMAIN store
                      /\ store' = DbUpdate(store, UpdateItemApply(store[last'.args.id],
                                                                  last'.args.req))
                 [] last'.op = "DeleteItem" ->
                      /\ last'.args \in DOMAIN store
                      /\ store' = DbDelete(store, last'.args)
                      /\ events'[Len(events')].payload.item = store[last'.args]
                 [] OTHER ->
                      /\ last'.args.id \in DOMAIN store
                      /\ store' = DbUpdate(store,
                            [store[last'.args.id] EXCEPT
                               !.externalIds = MapPut(@, last'.args.system,
                                                      last'.args.externalID)])]_vars

\* an UpdateItem of the title on an item whose cached copy predates a
\* reorder: the row keeps the reordered priority
C36_Witness ==
    /\ last.op = "UpdateItem" /\ last.ok
    /\ Len(events) = 3
    /\ events[2].payload.type = EventTypeItemsReordered
    /\ last.args.id \in DOMAIN events[2].payload.itemPriorities
    /\ store[last.args.id].priority = 1
    /\ store[last.args.id].title = "b"
    /\ events[1].payload.item.priority = 0

\* C38: an UpdateItem that returns an error (item or parent not found, empty
\* title, invalid status, negative story points, invalid parent-child
\* pairing, failed write) leaves the store, the event log, the bus and the
\* cache as they were, also when the request names other, valid fields.
C38_FailedUpdateChangesNothing ==
    [][(calls' = calls + 1 /\ last'.op = "UpdateItem" /\ ~last'.ok)
       => UNCHANGED <<store, events, bus, cache>>]_vars

\* an UpdateItem with a valid title and an invalid status failed on a cached
\* item, whose title is still the old one
C38_Witness ==
    /\ last.op = "UpdateItem" /\ ~last.ok
    /\ last.err = "invalid item status"
    /\ last.args.req = [title |-> "b", status |-> "BOGUS"]
    /\ store[last.args.id].title = "a"
    /\ ItemKey(last.args.id) \in DOMAIN cache
    /\ Len(events) = 1

-----------------------------------------------------------------------------
(* SpecUpdate: UpdateItem with each field of the request on its own *)

FrameCreateReqs ==
    {[BaseCreate(ItemTypeEpic, Nil) EXCEPT !.tags = <<"x">>, !.storyPoints = 2,
                                           !.description = "d"],
     BaseCreate(ItemTypeFeature, Nil)}

FrameUpdateReqs ==
    {[title |-> "b"], [description |-> "e"], [status |-> ItemStatusDone],
     [storyPoints |-> 3], [priority |-> 1], [parentId |-> 1], [assignee |-> "u"],
     [tags |-> <<"y">>], [title |-> "b", tags |-> <<>>]}

NextUpdate ==
    \/ \E req \in FrameCreateReqs : CreateItem(req, {})
    \/ \E id \in Ids, req \in FrameUpdateReqs : UpdateItem(id, req, {})
    \/ \E id \in Ids : SetExternalID(id, "jira", "J-1", {})

SpecUpdate == Init /\ [][NextUpdate]_vars

UpdateItemRequestFields ==
    {"title", "description", "status", "parentId", "storyPoints", "priority",
     "assignee", "tags"}

\* C13: a successful UpdateItem leaves every field absent from its request
\* as it was persisted before the call, and never changes id, type or
\* externalIds.
C13_UpdateItemFrame ==
    [][(calls' = calls + 1 /\ last'.op = "UpdateItem" /\ last'.ok)
       => LET id == last'.args.id IN
          /\ id \in DOMAIN store /\ id \in DOMAIN store'
          /\ \A n \in UpdateItemRequestFields \ DOMAIN last'.args.req :
                store'[id][n] = store[id][n]
          /\ store'[id].id = store[id].id
          /\ store'[id].type = store[id].type
          /\ store'[id].externalIds = store[id].externalIds]_vars

\* an UpdateItem of the title alone on an item that has a description, story
\* points, a tag and an external id
C13_Witness ==
    /\ last.op = "UpdateItem" /\ last.ok
    /\ last.args.req = [title |-> "b"]
    /\ store[last.args.id].title = "b"
    /\ store[last.args.id].description = "d"
    /\ store[last.args.id].storyPoints = 2
    /\ store[last.args.id].tags = <<"x">>
    /\ store[last.args.id].externalIds = MapPut(EmptyMap, "jira", "J-1")

-----------------------------------------------------------------------------
(* SpecList: ListItems under filters, between the mutating operations *)

ListCreateReqs ==
    {[BaseCreate(ItemTypeEpic, Nil) EXCEPT !.tags = <<"x", "y">>],
     [BaseCreate(ItemTypeFeature, 1) EXCEPT !.tags = <<"x">>]}

ListUpdateReqs == {[status |-> ItemStatusDone], [assignee |-> "u"]}

ListFilters ==
    {NoFilter,
     [NoFilter EXCEPT !.types = {ItemTypeFeature}],
     [NoFilter EXCEPT !.statuses = {ItemStatusDone}],
     [NoFilter EXCEPT !.parentId = 1],
     [NoFilter EXCEPT !.assignee = "u"],
     [NoFilter EXCEPT !.tags = <<"x", "y">>],
     [NoFilter EXCEPT !.search = "A"]}

NextList ==
    \/ \E req \in ListCreateReqs : CreateItem(req, {})
    \/ \E id \in Ids, req \in ListUpdateReqs : UpdateItem(id, req, {})
    \/ \E id \in Ids : DeleteItem(id, {})
    \/ ReorderItems(<<ReorderReq(1, 1)>>, {}, 0)
    \/ \E id \in Ids : SetExternalID(id, "jira", "J-1", {})
    \/ \E filter \in ListFilters : ListItems(filter, {})
    \/ ListItems([NoFilter EXCEPT !.tags = <<"x", "y">>], {"set"})

SpecList == Init /\ [][NextList]_vars

MutatingOps == {"CreateItem", "UpdateItem", "DeleteItem", "ReorderItems", "SetExternalID"}

\* C14: a successful mutating operation leaves neither metrics nor list:all
\* in the cache, and UpdateItem, DeleteItem and SetExternalID leave no
\* item:<id> either.
C14_MutationInvalidatesCache ==
    [][(calls' = calls + 1 /\ last'.ok /\ last'.op \in MutatingOps)
       => /\ ListKey \notin DOMAIN cache'
          /\ MetricsKey \notin DOMAIN cache'
          /\ last'.op \in {"UpdateItem", "SetExternalID"}
                => ItemKey(last'.args.id) \notin DOMAIN cache'
          /\ last'.op = "DeleteItem" => ItemKey(last'.args) \notin DOMAIN cache']_vars

\* the filter's conditions other than the free-text search
SatisfiesFilter(row, filter) ==
    /\ filter.types # {} => row.type \in filter.types
    /\ filter.statuses # {} => row.status \in filter.statuses
    /\ filter.parentId # Nil => row.parentId = filter.parentId
    /\ filter.assignee # "" => row.assignee = filter.assignee
    /\ TagSet(filter.tags) \subseteq TagSet(row.tags)

\* C15: the result of a ListItems without search holds only stored items
\* that satisfy the filter, and its totalCount is the number of stored
\* items that satisfy it.
C15_ListItemsHonoursFilter ==
    (last.op = "ListItems" /\ last.args.search = "")
    => /\ last.ok
       /\ \A i \in DOMAIN last.res.items :
             /\ last.res.items[i].id \in DOMAIN store
             /\ last.res.items[i] = store[last.res.items[i].id]
             /\ SatisfiesFilter(last.res.items[i], last.args)
       /\ last.res.totalCount =
             Cardinality({i \in DOMAIN store : SatisfiesFilter(store[i], last.args)})
       /\ last.args.limit = 0 => Len(last.res.items) = last.res.totalCount

\* a ListItems by tags returned one of two stored items while list:all
\* still holds the result of an earlier ListItems with another filter
C15_Witness ==
    /\ last.op = "ListItems" /\ last.ok
    /\ last.args = [NoFilter EXCEPT !.tags = <<"x", "y">>]
    /\ Cardinality(DOMAIN store) = 2
    /\ last.res.totalCount = 1
    /\ ListKey \in DOMAIN cache
    /\ cache[ListKey].val.totalCount = 2

\* C16: a ListItems with a free-text search returns what the store gives
\* and leaves the cache as it was; a ListItems without search that finds no
\* list:all entry stores its result under list:all.
C16_SearchBypassesCache ==
    [][(calls' = calls /\ last'.op = "ListItems" /\ <<last, cache>>' # <<last, cache>>)
       => /\ last'.args.search # ""
                => /\ cache' = cache
                   /\ [items |-> last'.res.items, totalCount |-> last'.res.totalCount]
                         \in DbList(store, last'.args)
          /\ (last'.args.search = "" /\ ListKey \notin DOMAIN cache
                 /\ "set" \notin last'.fails)
                => /\ ListKey \in DOMAIN cache'
                   /\ cache'[ListKey].val = last'.res]_vars

\* a search ran while list:all held an earlier result of another size
C16_Witness ==
    /\ last.op = "ListItems" /\ last.ok
    /\ last.args.search = "A"
    /\ ListKey \in DOMAIN cache
    /\ Len(cache[ListKey].val.items) # Len(last.res.items)
    /\ Len(last.res.items) > 0

-----------------------------------------------------------------------------
(* SpecChildren: GetChildren between the operations that change a family *)

ChildrenCreateReqs ==
    {BaseCreate(ItemTypeEpic, Nil), BaseCreate(ItemTypeFeature, Nil),
     BaseCreate(ItemTypeFeature, 1)}

NextChildren ==
    \/ \E req \in ChildrenCreateReqs : CreateItem(req, {})
    \/ \E id \in Ids : UpdateItem(id, [parentId |-> 1], {})
    \/ \E id \in Ids : DeleteItem(id, {})
    \/ \E id \in Ids, pr \in Priorities : ReorderItems(<<ReorderReq(id, pr)>>, {}, 0)
    \/ \E parentId \in Ids : GetChildren(parentId, {})
    \/ GetChildren(1, {"set"})

SpecChildren == Init /\ [][NextChildren]_vars

-----------------------------------------------------------------------------
(* SpecExt: external ids set and set again *)

NextExt ==
    \/ CreateItem(BaseCreate(ItemTypeStory, Nil), {})
    \/ \E id \in Ids, system \in {"jira", "github"}, externalID \in {"J-1", "J-2"} :
          SetExternalID(id, system, externalID, {})
    \/ \E id \in Ids : GetItem(id, {})

SpecExt == Init /\ [][NextExt]_vars

\* C19: a successful SetExternalID(id, s, v) leaves the item's external-id
\* map with the entry s -> v and every other system's entry as it was, so
\* a second call for s replaces the first value, and a call that repeats
\* the stored value leaves the map as it is.
C19_SetExternalIDLatestWins ==
    [][(calls' = calls + 1 /\ last'.op = "SetExternalID" /\ last'.ok)
       => LET id == last'.args.id
              s == last'.args.system
              v == last'.args.externalID
              old == store[id].externalIds
              new == store'[id].externalIds
          IN  /\ DOMAIN new = DOMAIN old \cup {s}
              /\ new[s] = v
              /\ \A t \in DOMAIN old \ {s} : new[t] = old[t]
              /\ (s \in DOMAIN old /\ old[s] = v) => new = old]_vars

\* J-2 was set for a system of an item after J-1 had been set for it
C19_Witness ==
    /\ last.op = "SetExternalID" /\ last.ok
    /\ last.args.externalID = "J-2"
    /\ store[last.args.id].externalIds = MapPut(EmptyMap, last.args.system, "J-2")
    /\ \E i \in DOMAIN events :
          /\ events[i].payload.type = EventTypeExternalIDSet
          /\ events[i].payload.itemId = last.args.id
          /\ events[i].payload.system = last.args.system
          /\ events[i].payload.externalId = "J-1"

-----------------------------------------------------------------------------
(* SpecReplay: items created, updated, reordered and deleted, and replayed   *)
(* from their events                                                        *)

NextReplay ==
    \/ \E t \in ItemTypes : CreateItem(BaseCreate(t, Nil), {})
    \/ \E id \in Ids, t \in {"b", "c"} : UpdateItem(id, [title |-> t], {})
    \/ \E id \in Ids : SetExternalID(id, "jira", "J-1", {})
    \/ \E id \in Ids : ReorderItems(<<ReorderReq(id, MaxPriority)>>, {}, 0)
    \/ \E id \in Ids : DeleteItem(id, {})
    \/ \E id \in Ids : ReplayEvents(id)

SpecReplay == Init /\ [][NextReplay]_vars

\* the ITEM_UPDATED events appended for an item, oldest first
UpdatedEvents(itemID) ==
    SelectSeq(events, LAMBDA e : /\ e.payload.type = EventTypeItemUpdated
                                 /\ e.payload.itemId = itemID)

\* C20: for an item with an ITEM_CREATED event and at least one ITEM_UPDATED
\* event in the log, and no later event, ReplayEvents returns the snapshot
\* carried by the last ITEM_UPDATED event.
C20_ReplayEqualsLastUpdate ==
    (/\ last.op = "ReplayEvents"
     /\ UpdatedEvents(last.args) # <<>>
     /\ events[Len(events)].payload.type = EventTypeItemUpdated
     /\ events[Len(events)].payload.itemId = last.args)
    => /\ last.ok
       /\ last.res = events[Len(events)].payload.item

\* the events appended that carry the id of an item, oldest first
ItemEvents(itemID) ==
    SelectSeq(events, LAMBDA e : /\ "itemId" \in DOMAIN e.payload
                                 /\ e.payload.itemId = itemID)

\* the ITEMS_REORDERED events appended whose map names an item
ReorderedEvents(itemID) ==
    SelectSeq(events, LAMBDA e : /\ e.payload.type = EventTypeItemsReordered
                                 /\ itemID \in DOMAIN e.payload.itemPriorities)

\* C21: for a persisted item that was never named in a ReorderItems batch,
\* after successful CreateItem, UpdateItem and SetExternalID calls on it with
\* every event append succeeding, ReplayEvents returns an item equal to the
\* persisted one, the external ids applied as upserts.
C21_ReplayEqualsPersisted ==
    (/\ last.op = "ReplayEvents"
     /\ last.args \in DOMAIN store
     /\ ItemEvents(last.args) # <<>>
     /\ ReorderedEvents(last.args) = <<>>)
    => /\ last.ok
       /\ last.res = store[last.args]

\* the snapshot the created, updated and external-id events of an item fold to
FoldedSnapshot(itemID) ==
    LET evs == [i \in DOMAIN ItemEvents(itemID) |-> ItemEvents(itemID)[i].payload]
        created == SelectSeq(evs, LAMBDA e : e.type = EventTypeItemCreated)
    IN  ApplyEvents(created[1].item, evs)

\* C22: for an item whose events include an ITEM_DELETED event or an
\* ITEMS_REORDERED event naming it, ReplayEvents still succeeds and returns
\* the snapshot folded from its created, updated and external-id events
\* alone.
C22_ReplaySkipsDeletedAndReordered ==
    (/\ last.op = "ReplayEvents"
     /\ \E i \in DOMAIN ItemEvents(last.args) :
           ItemEvents(last.args)[i].payload.type = EventTypeItemCreated
     /\ \/ ReorderedEvents(last.args) # <<>>
        \/ \E i \in DOMAIN ItemEvents(last.args) :
              ItemEvents(last.args)[i].payload.type = EventTypeItemDeleted)
    => /\ last.ok
       /\ last.res = FoldedSnapshot(last.args)

\* the rows of the log whose item_id is not the id of a row deleted from
\* store s to store t (item_id ... ON DELETE CASCADE)
KeptRows(ev, s, t) ==
    SelectSeq(ev, LAMBDA e : e.item_id \notin (DOMAIN s \ DOMAIN t))

\* C25: in every step the rows of the event log, other than rows owned by an
\* item the step hard-deletes, stay in place and unchanged, new rows coming
\* after them; steps other than DeleteItem keep every row.
C25_EventLogAppendOnly ==
    [][/\ Len(events') >= Len(KeptRows(events, store, store'))
       /\ \A i \in DOMAIN KeptRows(events, store, store') :
             events'[i] = KeptRows(events, store, store')[i]
       /\ last'.op # "DeleteItem" =>
             /\ Len(events') >= Len(events)
             /\ \A i \in DOMAIN events : events'[i] = events[i]]_vars

\* a log of three events, the oldest still the ITEM_CREATED event it began
\* with, after an update and a SetExternalID
C25_Witness ==
    /\ last.op = "SetExternalID" /\ last.ok
    /\ Len(events) = 3
    /\ events[1].payload.type = EventTypeItemCreated
    /\ events[2].payload.type = EventTypeItemUpdated
    /\ events[3].payload.type = EventTypeExternalIDSet

\* the topic named for each event kind, without and with the "backlog." prefix
TopicName(kind) ==
    CASE kind = EventTypeItemCreated    -> "item.created"
      [] kind = EventTypeItemUpdated    -> "item.updated"
      [] kind = EventTypeItemDeleted    -> "item.deleted"
      [] kind = EventTypeItemsReordered -> "items.reordered"
      [] OTHER                          -> "item.external_id.set"

BacklogTopicName(kind) ==
    CASE kind = EventTypeItemCreated    -> "backlog.item.created"
      [] kind = EventTypeItemUpdated    -> "backlog.item.updated"
      [] kind = EventTypeItemDeleted    -> "backlog.item.deleted"
      [] kind = EventTypeItemsReordered -> "backlog.items.reordered"
      [] OTHER                          -> "backlog.item.external_id.set"

\* C32 as stated: every published message is on the topic item.created,
\* item.updated, item.deleted, items.reordered or item.external_id.set of its
\* event kind.
C32_TopicPerKind ==
    \A i \in DOMAIN bus : bus[i].topic = TopicName(bus[i].value.type)

\* C32: every published message is on the topic of its event kind, the
\* topics being backlog.item.created, backlog.item.updated,
\* backlog.item.deleted, backlog.items.reordered and
\* backlog.item.external_id.set; nothing is published to any other topic.
C32_BacklogTopicPerKind ==
    \A i \in DOMAIN bus : bus[i].topic = BacklogTopicName(bus[i].value.type)

\* a created, a reordered and a deleted message, each on its own topic
C32_Witness ==
    /\ Len(bus) = 3
    /\ bus[1].topic = "backlog.item.created"
    /\ bus[1].value.type = EventTypeItemCreated
    /\ bus[2].topic = "backlog.items.reordered"
    /\ bus[2].value.type = EventTypeItemsReordered
    /\ bus[3].topic = "backlog.item.deleted"
    /\ bus[3].value.type = EventTypeItemDeleted

\* C33: every persisted item has the type it was created with, whatever
\* UpdateItem, ReorderItems and SetExternalID calls were made on it since.
C33_TypeImmutable ==
    \A i \in DOMAIN events :
        (/\ events[i].payload.type = EventTypeItemCreated
         /\ events[i].payload.itemId \in DOMAIN store)
        => store[events[i].payload.itemId].type = events[i].payload.item.type

\* a feature that has since been updated and given an external id
C33_Witness ==
    /\ last.op = "SetExternalID" /\ last.ok
    /\ store[last.args.id].type = ItemTypeFeature
    /\ store[last.args.id].title = "b"
    /\ store[last.args.id].externalIds # EmptyMap

-----------------------------------------------------------------------------
(* SpecRace: UpdateItem in two steps, so that the calls on an item overlap *)

RaceUpdateReqs ==
    {[title |-> "b"], [status |-> ItemStatusDone], [priority |-> 1, assignee |-> "ann"]}

NextRace ==
    \/ CreateItem(BaseCreate(ItemTypeStory, Nil), {})
    \/ \E id \in Ids, req \in RaceUpdateReqs : UpdateItemLoad(id, req)
    \/ \E r \in inflight : UpdateItemFinish(r, {})
    \/ \E id \in Ids : GetItem(id, {})

SpecRace == Init /\ [][NextRace]_vars

\* C27: whenever an UpdateItem that overlaps other UpdateItem calls on the
\* same item writes, it succeeds and the persisted row becomes exactly the
\* complete snapshot that call computed from the row it had loaded; the
\* other rows stay as they are.  So once all calls have returned the row is
\* the snapshot of the call that wrote last.
C27_LastWriteWins ==
    [][(Cardinality(inflight') < Cardinality(inflight))
       => \E r \in inflight \ inflight' :
             /\ last'.op = "UpdateItem" /\ last'.ok
             /\ last'.args.id = r.id
             /\ last'.res = r.item
             /\ store'[r.id] = r.item
             /\ Others(store', {r.id}) = Others(store, {r.id})]_vars

\* two UpdateItem calls on an item overlapped: both returned, both logged
\* their snapshot, and the row is the snapshot of the second writer, without
\* the title the first one wrote
C27_Witness ==
    /\ inflight = {}
    /\ last.op = "UpdateItem" /\ last.ok
    /\ Len(events) = 3
    /\ events[2].payload.itemId = last.args.id
    /\ events[2].payload.item.title = "b"
    /\ events[3].payload.item = store[last.args.id]
    /\ store[last.args.id].title = "a"
    /\ store[last.args.id].status = ItemStatusDone

-----------------------------------------------------------------------------
(* SpecConsume: the consumer loop over the messages the service publishes *)

NextConsume ==
    \/ CreateItem(BaseCreate(ItemTypeStory, Nil), {})
    \/ \E id \in Ids : UpdateItem(id, [title |-> "b"], {})
    \/ ReadMessage
    \/ \E ok \in BOOLEAN : MessageHandler(ok)
    \/ CommitMessage
    \/ Cancel
    \/ ContextDone

SpecConsume == Init /\ [][NextConsume]_vars

\* the handler call made for a message
HandledAs(c, m, ok) ==
    \E i \in DOMAIN c.handled : c.handled[i] = [offset |-> m, ok |-> ok]

\* C28: CommitMessage is called for a message only in the step after the
\* handler returned success for it; a message is handed to the handler once;
\* when the handler returns an error the loop is back at ReadMessage with no
\* commit for that message, then or later, and the next message it reads is
\* the following one.
C28_CommitOnlyAfterHandlerSuccess ==
    [][/\ consumer'.commits # consumer.commits =>
             /\ consumer.pc = "commit"
             /\ consumer'.commits = Append(consumer.commits, consumer.msg)
             /\ consumer.handled # <<>>
             /\ consumer.handled[Len(consumer.handled)] = [offset |-> consumer.msg, ok |-> TRUE]
       /\ consumer'.handled # consumer.handled =>
             /\ consumer.pc = "handle"
             /\ Len(consumer'.handled) = Len(consumer.handled) + 1
             /\ consumer'.handled[Len(consumer'.handled)].offset = consumer.msg
             /\ \A i \in DOMAIN consumer.handled : consumer.handled[i].offset < consumer.msg
             /\ ~consumer'.handled[Len(consumer'.handled)].ok =>
                   /\ consumer'.pc = "read"
                   /\ consumer'.commits = consumer.commits
                   /\ consumer'.offset = consumer.msg
       /\ \A i \in DOMAIN consumer'.commits :
             /\ HandledAs(consumer', consumer'.commits[i], TRUE)
             /\ ~HandledAs(consumer', consumer'.commits[i], FALSE)
       /\ consumer'.msg # consumer.msg => consumer'.msg = consumer.msg + 1]_vars

\* the handler failed on the first message and succeeded on the second: only
\* the second was committed, and the first was not handled again
C28_Witness ==
    /\ consumer.handled = <<[offset |-> 1, ok |-> FALSE], [offset |-> 2, ok |-> TRUE]>>
    /\ consumer.commits = <<2>>
    /\ consumer.pc = "read"

\* the consumer goroutine keeps running: the select at the top of the loop,
\* the handler and CommitMessage each return
SpecConsumeLive ==
    /\ SpecConsume
    /\ WF_vars(ContextDone)
    /\ WF_vars(\E ok \in BOOLEAN : MessageHandler(ok))
    /\ WF_vars(CommitMessage)

-----------------------------------------------------------------------------
(* SpecMetrics: the health status and the iceberg ratio computed from the    *)
(* values the metrics queries returned                                       *)

\* what GetBacklogSize, GetWIPCounts and GetLeadTime return: counts around
\* the thresholds of the health rules, and even and uneven type mixes
MetricsInputs ==
    {[sizeCounts |-> [t \in {ItemTypeEpic, ItemTypeFeature, ItemTypeStory} |->
                        CASE t = ItemTypeEpic -> e
                          [] t = ItemTypeFeature -> ft
                          [] OTHER -> st],
      wipCount |-> w, leadTime |-> l] :
        e \in {0, 1, 10, 50}, ft \in {0, 10, 50, 51, 60}, st \in {0, 1, 10, 50},
        w \in {0, 10, 11, 20, 21, 25}, l \in {0, 30, 31, 60, 61}}

\* GetBacklogSize, GetWIPCounts and GetLeadTime have returned
InitMetrics ==
    /\ store = EmptyMap
    /\ events = <<>>
    /\ bus = <<>>
    /\ cache = EmptyMap
    /\ nextId = 0
    /\ inflight = {}
    /\ calls = 0
    /\ consumer = [pc |-> "read", offset |-> 0, msg |-> 0, handled |-> <<>>,
                   commits |-> <<>>, cancelled |-> FALSE]
    /\ \E inp \in MetricsInputs : last = [NoCall EXCEPT !.op = "metricsRepo", !.res = inp]

NextMetrics ==
    \/ /\ last.op = "metricsRepo"
       /\ Return("determineHealthStatus", last.res, TRUE, "",
                 determineHealthStatus(last.res.sizeCounts, last.res.wipCount,
                                       last.res.leadTime), {}, FALSE)
       /\ UNCHANGED <<store, events, bus, cache, nextId, inflight, calls>>
    \/ /\ last.op = "metricsRepo"
       /\ Return("calculateIcebergRatio", last.res, TRUE, "",
                 calculateIcebergRatio(last.res.sizeCounts), {}, FALSE)
       /\ UNCHANGED <<store, events, bus, cache, nextId, inflight, calls>>

SpecMetrics == InitMetrics /\ [][NextMetrics]_vars

TotalItems(sizeCounts) ==
    sizeCounts[ItemTypeEpic] + sizeCounts[ItemTypeFeature] + sizeCounts[ItemTypeStory]

\* C29: the health status is AT_RISK when totalItems > 150; otherwise
\* WARNING when wipCount > 20 or leadTime > 60; otherwise HEALTHY when
\* totalItems <= 100, wipCount <= 10 and leadTime <= 30; otherwise AVERAGE.
\* So 160 items give AT_RISK whatever the WIP and lead time, and 50 items
\* with a WIP of 25 give WARNING.
C29_HealthStatusRules ==
    last.op = "determineHealthStatus" =>
       LET total == TotalItems(last.args.sizeCounts)
           wip == last.args.wipCount
           lead == last.args.leadTime
       IN  /\ total > 150 => last.res = "AT_RISK"
           /\ (total <= 150 /\ (wip > 20 \/ lead > 60)) => last.res = "WARNING"
           /\ (total <= 100 /\ wip <= 10 /\ lead <= 30) => last.res = "HEALTHY"
           /\ (total <= 150 /\ wip <= 20 /\ lead <= 60
                  /\ ~(total <= 100 /\ wip <= 10 /\ lead <= 30)) => last.res = "AVERAGE"
           /\ total = 160 => last.res = "AT_RISK"
           /\ (total = 50 /\ wip = 25) => last.res = "WARNING"

\* 160 items with a WIP of 25 and a lead time of 61 days: AT_RISK
C29_Witness ==
    /\ last.op = "determineHealthStatus"
    /\ TotalItems(last.args.sizeCounts) = 160
    /\ last.args.wipCount = 25
    /\ last.args.leadTime = 61
    /\ last.res = "AT_RISK"

\* C30: the iceberg ratio is 1.0 whenever the epic, feature and story counts
\* are equal and positive, and lies in [0,1] for every triple of counts.
C30_IcebergRatioOneWhenEven ==
    last.op = "calculateIcebergRatio" =>
       /\ 0 <= last.res.num
       /\ last.res.num <= last.res.den
       /\ (/\ last.args.sizeCounts[ItemTypeEpic] > 0
           /\ last.args.sizeCounts[ItemTypeEpic] = last.args.sizeCounts[ItemTypeFeature]
           /\ last.args.sizeCounts[ItemTypeEpic] = last.args.sizeCounts[ItemTypeStory])
          => last.res.num = last.res.den

-----------------------------------------------------------------------------
(* SpecGetMetrics: GetMetrics between mutations of the backlog *)

NextGetMetrics ==
    \/ \E t \in ItemTypes : CreateItem(BaseCreate(t, Nil), {})
    \/ \E id \in Ids, st \in {ItemStatusInProgress, ItemStatusDone} :
          UpdateItem(id, [status |-> st], {})
    \/ \E id \in Ids : DeleteItem(id, {})
    \/ \E avg \in {0, 31} : GetMetrics({}, avg)

SpecGetMetrics == Init /\ [][NextGetMetrics]_vars

\* the persisted items of a type that are not DONE
ActiveOfType(t) ==
    {i \in DOMAIN store : store[i].type = t /\ store[i].status # ItemStatusDone}

\* C31: whatever mutations came before, GetMetrics succeeds and returns the
\* per-type counts of persisted non-DONE items, their sum as TotalItems, and
\* the number of persisted IN_PROGRESS items as WIPCount.
C31_GetMetricsCounts ==
    last.op = "GetMetrics" =>
       /\ last.ok
       /\ last.res.EpicCount = Cardinality(ActiveOfType(ItemTypeEpic))
       /\ last.res.FeatureCount = Cardinality(ActiveOfType(ItemTypeFeature))
       /\ last.res.StoryCount = Cardinality(ActiveOfType(ItemTypeStory))
       /\ last.res.TotalItems = last.res.EpicCount + last.res.FeatureCount + last.res.StoryCount
       /\ last.res.WIPCount =
             Cardinality({i \in DOMAIN store : store[i].status = ItemStatusInProgress})

-----------------------------------------------------------------------------
(* SpecOverlap: GetItem, UpdateItem and SetExternalID in two steps, so that  *)
(* calls on the same item overlap one another and DeleteItem                 *)

NextOverlap ==
    \/ CreateItem(BaseCreate(ItemTypeStory, Nil), {})
    \/ \E id \in Ids : GetItemLoad(id, {})
    \/ \E r \in inflight : GetItemFinish(r, {})
    \/ \E id \in Ids : UpdateItemLoad(id, [title |-> "b"])
    \/ \E r \in inflight : UpdateItemFinish(r, {})
    \/ \E id \in Ids, system \in {"jira", "github"} : SetExternalIDLoad(id, system, "J-1")
    \/ \E r \in inflight : SetExternalIDFinish(r, {})
    \/ \E id \in Ids : DeleteItem(id, {})

SpecOverlap == Init /\ [][NextOverlap]_vars

\* C34: once all calls have returned, the cache has no entry under
\* item:<id> or holds a copy equal to the item currently persisted.
C34_NoStaleItemAfterOverlap ==
    inflight = {} =>
       \A id \in Ids :
          ItemKey(id) \in DOMAIN cache =>
             /\ id \in DOMAIN store
             /\ cache[ItemKey(id)].val = store[id]

\* C37: once all calls have returned, a persisted item has an external id
\* for every system a successful SetExternalID set on it, and has the title
\* a successful UpdateItem gave it.
C37_ConcurrentUpsertsKept ==
    inflight = {} =>
       \A i \in DOMAIN events :
          LET e == events[i].payload IN
          /\ (e.type = EventTypeExternalIDSet /\ e.itemId \in DOMAIN store)
                => /\ e.system \in DOMAIN store[e.itemId].externalIds
                   /\ store[e.itemId].externalIds[e.system] = e.externalId
          /\ (e.type = EventTypeItemUpdated /\ e.itemId \in DOMAIN store)
                => store[e.itemId].title = e.item.title

====
